---- MODULE Spec2Model ----
(***************************************************************************)
(* A model of the Bali document repository storage layer:                 *)
(*   - S3Storage            (src/src/storage/S3Storage.js)                *)
(*   - LocalRepository      (src/unnamed/part_001)                        *)
(* Every asynchronous handler is cut at its `await`s: one action per      *)
(* driver call, so that concurrent callers interleave exactly where the   *)
(* JavaScript event loop (or another process) can interleave them.        *)
(*                                                                         *)
(* A component (name, citation, document, message) is represented by its  *)
(* canonical source string: a sequence of positive "characters".  Stored  *)
(* bytes are such a string followed by EOL characters.  The empty string  *)
(* <<>> stands for "no object": the S3 driver itself treats an object of  *)
(* ContentLength 0 as absent.                                              *)
(***************************************************************************)
EXTENDS Integers, Sequences, FiniteSets, TLC

\* ---------------------------------------------------------------- bounds
NumProcs == 2
NumNames == 1
NumDocTags == 1
NumContents == 2
NumTags == 2
MaxCalls == 4
MaxVersion == 2
Capacity == 2
\* the number of keys a Cache is used with, and the largest capacity of a
\* Cache (the source constructs its caches with 256)
NumKeys == 3
CACHE_SIZE == 2
\* the number of calls made through the pass-through operations
MaxPassCalls == 3

\* ------------------------------------------------------ program constants
\* character codes: the POSIX end of line, '#', '/', '_' and ".bali"
EOL == 10
HASH == 35
SLASH == 47
UNDERSCORE == 95
Extension == <<46, 98, 97, 108, 105>>

Procs == 1..NumProcs
\* the single caller of the sequential specifications
SeqProcs == {1}
\* a name is a '/' followed by its path
Names == {<<SLASH, n>> : n \in 1..NumNames}
\* the tags of documents and contracts, and the tags of messages
DocTags == 1..NumDocTags
Tags == 1..NumTags
Contents == 1..NumContents

\* a document <<tag, version, content>>; documents are committed at version 1
Documents == {<<t, 1, c>> : t \in DocTags, c \in Contents}
\* a contract wraps a document: <<tag, version, content, seal>>
Contracts == {<<t, 1, c, 1>> : t \in DocTags, c \in Contents}
\* a citation <<tag, version, digest>>
Citations == {<<t, 1, c>> : t \in DocTags, c \in Contents}
\* the identifiers LocalRepository is called with: tag and version
DocumentIds == {<<t, 1>> : t \in DocTags}

Versions == 1..MaxVersion
\* a message <<tag, version, content>>; new messages are added at version 1
Messages == {<<t, v, c>> : t \in Tags, v \in Versions, c \in Contents}
NewMessages == {<<t, 1, c>> : t \in Tags, c \in Contents}
MessageIdentifiers == {<<t, v>> : t \in Tags, v \in Versions}
MessageKeys == {<<s, t, v>> : s \in {"available", "processing"}, t \in Tags, v \in Versions}
\* the file names bali.tag() can generate for queued messages, in order of use
MessageIds == 1..MaxCalls
\* the source strings of queued messages
Payloads == {<<c>> : c \in Contents}

\* the keys a Cache is read and written with
CacheKeys == 1..NumKeys

NoBytes == <<>>

VARIABLES
    names,      \* S3 bucket configuration.names:     identifier -> bytes
    documents,  \* S3 bucket configuration.documents: identifier -> bytes
    contracts,  \* S3 bucket configuration.contracts: identifier -> bytes
    pc,         \* per caller: the await it is suspended at, or "idle"
    loc,        \* per caller: the local variables of the running handler
    ret,        \* the outcome of the call that completed last, until the next call starts
    calls,      \* number of calls started so far
    wins,       \* history: per name, the number of writeName calls that returned normally
    bound,      \* history: per name, the citation of the first writeName that returned normally
    firstDoc,   \* history: per identifier, the document of the first writeDocument that returned normally
    citations,  \* LocalRepository directory citations/: file name -> file contents
    cited,      \* history: per name, the citation of the first createCitation that returned normally
    drafts,     \* LocalRepository directory drafts/:    identifier -> file contents
    lastDraft,  \* history: per identifier, the draft last saved and not deleted since
    prevDraft,  \* history: per identifier, what lastDraft was before it last changed
    localDocs,  \* LocalRepository directory documents/: identifier -> file contents
    queueDir,   \* LocalRepository: whether the directory queues/<queueId>/ exists
    queueFiles, \* LocalRepository directory queues/<queueId>/: message id -> file contents
    queued,     \* number of message ids generated so far by queueMessage
    dequeued,   \* history: per message file, the number of dequeueMessage calls that returned it
    sent,       \* history: per message file, the message queueMessage wrote into it
    messages,   \* S3 bucket configuration.messages: <<state, tag, version>> -> bytes
    held,       \* per caller: the borrowed messages it has neither returned nor deleted
    created,    \* history: per <<tag, version>>, how often its available key came into existence
    delivered,  \* history: per <<tag, version>>, the number of removeMessage calls that returned it
    added,      \* history: per <<tag, version>>, the message last written under its available key
    before,     \* history: the messages bucket as it was when the last message call started
    cacheCapacity,  \* Cache: the capacity it was constructed with
    cacheDocuments, \* Cache: its Map `documents`, the <<name, document>> entries in insertion order
    cacheLog,       \* history: the <<method, name>> of the Cache calls made so far
    cacheCitations, \* CachedStorage: the Map of cache.citations (cacheDocuments is that of cache.documents)
    stack,          \* per caller: the CachedStorage or DocumentRepository call awaiting its storage call
    repositoryCalls, \* history: the storage methods the current (or last) such call has invoked
    cacheBefore,    \* history: <<cacheCitations, cacheDocuments>> as they were when that call started
    faulty          \* whether the S3 driver may answer a request with an error

nameState == <<names, wins, bound>>
docState == <<documents, contracts, firstDoc>>
\* what the operations on names, and on documents and contracts, leave alone
localState == <<citations, cited, drafts, lastDraft, prevDraft, localDocs>>
queueState == <<queueDir, queueFiles, queued, dequeued, sent>>
bagState == <<messages, held, created, delivered, added, before>>
cacheState == <<cacheCapacity, cacheDocuments, cacheLog>>
cachedState == <<cacheCitations, stack, repositoryCalls, cacheBefore>>
NotNames == <<cachedState, docState, localState, queueState, bagState, cacheState, faulty>>
NotDocs == <<cachedState, nameState, localState, queueState, bagState, cacheState, faulty>>
NotLocal == <<cachedState, nameState, docState, queueState, bagState, cacheState, faulty>>
NotQueue == <<cachedState, nameState, docState, localState, bagState, cacheState, faulty>>
NotBag == <<cachedState, nameState, docState, localState, queueState, cacheState, faulty>>
NotCache == <<cachedState, nameState, docState, localState, queueState, bagState, faulty>>

\* what the steps of a CachedStorage call itself leave alone
NotCached == <<nameState, docState, localState, queueState, bagState, cacheCapacity, cacheLog,
               faulty>>

vars == <<nameState, docState, localState, queueState, bagState, cacheState, cachedState,
          pc, loc, ret, calls, faulty>>

\* ------------------------------------------------------------- components

\* notary.citeDocument(document): the citation carries the document's tag and
\* version and the digest of its content
citeDocument(document) == <<document[1], document[2], document[3]>>

\* contract.getValue('$document')
getDocument(contract) == SubSeq(contract, 1, 3)

\* bali.component(source): parses a source string, ignoring trailing EOLs
RECURSIVE component(_)
component(source) ==
    IF Len(source) > 0 /\ source[Len(source)] = EOL
    THEN component(SubSeq(source, 1, Len(source) - 1))
    ELSE source

\* bali.version.nextVersion(version)
nextVersion(version) == version + 1

\* the bag: a contract <<tag, version, $capacity, seal>>, and its citation;
\* the storage looks only at the tag and the version of the citation
BagContractOf(capacity) == <<1, 1, capacity, 1>>
BagContract == BagContractOf(Capacity)
Bag == citeDocument(getDocument(BagContract))

\* ---------------------------------------------------------- S3 identifiers

\* name.toString().slice(1) + '.bali'
generateNameIdentifier(name) == Tail(name) \o Extension

\* tag.toString().slice(1) + '/' + version + '.bali'
generateDocumentIdentifier(citation) ==
    Tail(<<HASH, citation[1]>>) \o <<SLASH, citation[2]>> \o Extension

\* the keys of the names bucket, and of the documents and contracts buckets
NameKeys == {generateNameIdentifier(name) : name \in Names}
DocumentKeys == {generateDocumentIdentifier(citation) : citation \in Citations}

\* the bag's own tag and version prefix every key of the one messages bucket
\* modelled; the key keeps the state and the message's tag and version
generateMessageIdentifier(bag, state, citation) == <<state, citation[1], citation[2]>>

\* ------------------------------------------------------ S3 driver primitives
\* Each takes the bucket contents and the error flag of the S3 callback.

\* whether a request to S3 ends in an error: the network is reliable unless
\* a specification starts with a faulty driver
S3Errors == IF faulty THEN {FALSE, TRUE} ELSE {FALSE}

componentExists(bucket, identifier, error) ==
    IF error \/ Len(bucket[identifier]) = 0 THEN FALSE ELSE TRUE

\* returns the Body, or NoBytes for undefined
readComponent(bucket, identifier, error) ==
    IF error \/ Len(bucket[identifier]) = 0 THEN NoBytes ELSE bucket[identifier]

\* putObject replaces whatever is stored under the key
writeComponent(bucket, identifier, source) ==
    [bucket EXCEPT ![identifier] = source \o <<EOL>>]

\* deleteObject removes the key; the promise resolves to true unless S3
\* reported an error, whether or not the object existed
deleteObject(bucket, identifier) == [bucket EXCEPT ![identifier] = NoBytes]

deleteComponent(bucket, identifier, error) == IF error THEN FALSE ELSE TRUE

\* the page size of listObjectsV2
MaxKeys == 64

Before(a, b) == a[1] < b[1] \/ (a[1] = b[1] /\ a[2] < b[2])

\* the keys of a set in S3's listing order
RECURSIVE Listing(_)
Listing(keys) ==
    IF keys = {} THEN <<>>
    ELSE LET first == CHOOSE k \in keys : \A other \in keys : other = k \/ Before(k, other)
         IN <<first>> \o Listing(keys \ {first})

\* listComponents(messages, <bag>/<state>): at most MaxKeys keys, each with
\* the prefix removed
listComponents(bucket, state) ==
    LET stored == {key \in DOMAIN bucket : key[1] = state /\ Len(bucket[key]) > 0}
        list == Listing({<<key[2], key[3]>> : key \in stored})
    IN IF Len(list) > MaxKeys THEN SubSeq(list, 1, MaxKeys) ELSE list

\* -------------------------------------------------------------- call frame

\* no call is pushed
NoCall == [op |-> "none", arg |-> <<>>, in |-> <<>>]

\* a frame: the argument, the identifier derived from it, the bytes in hand,
\* and (history) what was stored under the checked key when the call started
NoLoc == [arg |-> <<>>, id |-> <<>>, bytes |-> <<>>, start |-> <<>>]
Frame(a, i, b, s) == [arg |-> a, id |-> i, bytes |-> b, start |-> s]

\* an outcome: the operation, its key argument, its component argument, how it
\* ended, what it returned, (history) what its write replaced, and the frame's start
NoRet == [by |-> 0, op |-> "none", arg |-> <<>>, in |-> <<>>, status |-> "none", out |-> <<>>,
          pre |-> <<>>, start |-> <<>>]
Outcome(o, a, i, s, v, b) ==
    [by |-> 0, op |-> o, arg |-> a, in |-> i, status |-> s, out |-> v, pre |-> b, start |-> <<>>]
OutcomeOf(p, o, s, v, b) ==
    [by |-> p, op |-> o, arg |-> loc[p].arg, in |-> loc[p].bytes, status |-> s, out |-> v,
     pre |-> b, start |-> loc[p].start]

\* a caller starts a new call
Begin(p) == pc[p] = "idle" /\ calls < MaxCalls /\ calls' = calls + 1

\* the handler of p returns (or throws): record the outcome, drop the frame
Return(p, outcome) ==
    /\ pc' = [pc EXCEPT ![p] = "idle"]
    /\ loc' = [loc EXCEPT ![p] = NoLoc]
    /\ ret' = [outcome EXCEPT !.by = p]

\* the handler of p suspends at the await `label`; the start of a call
\* forgets the outcome of the last one
Goto(p, label, frame) ==
    /\ pc' = [pc EXCEPT ![p] = label]
    /\ loc' = [loc EXCEPT ![p] = frame]
    /\ ret' = IF pc[p] = "idle" THEN NoRet ELSE ret

\* the process of caller p halts while its handler is suspended at an await:
\* the handler never resumes, nothing it had still to do is done, and the
\* caller (restarted) is free to make new calls
halt(p) ==
    /\ pc[p] # "idle"
    /\ Return(p, OutcomeOf(p, pc[p], "halted", <<>>, <<>>))
    /\ UNCHANGED <<nameState, docState, localState, queueState, bagState, cacheState,
                   cachedState, faulty, calls>>

\* ------------------------------------------------------- S3Storage: names

\* what readName(name) returns in the current state (<<>> for undefined)
readNameValue(name, error) ==
    LET bytes == readComponent(names, generateNameIdentifier(name), error)
    IN IF Len(bytes) > 0 THEN component(bytes) ELSE <<>>

nameExists(p, name) ==
    /\ Begin(p)
    /\ \E error \in S3Errors :
         LET exists == componentExists(names, generateNameIdentifier(name), error)
         IN Return(p, Outcome("nameExists", name, <<>>, IF exists THEN "true" ELSE "false", <<>>, <<>>))
    /\ UNCHANGED <<nameState, NotNames>>

readName(p, name) ==
    /\ Begin(p)
    /\ \E error \in S3Errors :
         Return(p, Outcome("readName", name, <<>>, "ok", readNameValue(name, error), <<>>))
    /\ UNCHANGED <<nameState, NotNames>>

\* writeName up to its first await
writeName(p, name, citation) ==
    /\ Begin(p)
    /\ Goto(p, "writeName_exists",
            Frame(name, generateNameIdentifier(name), citation, names[generateNameIdentifier(name)]))
    /\ UNCHANGED <<nameState, NotNames>>

\* a faulty writeName_exists: the existence check is skipped
writeName_exists_unchecked(p) ==
    /\ pc[p] = "writeName_exists"
    /\ Goto(p, "writeName_write", loc[p])
    /\ UNCHANGED <<nameState, NotNames, calls>>

\* await componentExists(location, identifier)
writeName_exists(p) ==
    /\ pc[p] = "writeName_exists"
    /\ \E error \in S3Errors :
         IF componentExists(names, loc[p].id, error)
         THEN Return(p, OutcomeOf(p, "writeName", "nameExists", <<>>, names[loc[p].id]))
         ELSE Goto(p, "writeName_write", loc[p])
    /\ UNCHANGED <<nameState, NotNames, calls>>

\* await writeComponent(location, identifier, citation); return citation
writeName_write(p) ==
    /\ pc[p] = "writeName_write"
    /\ names' = writeComponent(names, loc[p].id, loc[p].bytes)
    /\ wins' = [wins EXCEPT ![loc[p].arg] = @ + 1]
    /\ bound' = [bound EXCEPT ![loc[p].arg] = IF @ = <<>> THEN loc[p].bytes ELSE @]
    /\ Return(p, OutcomeOf(p, "writeName", "ok", loc[p].bytes, names[loc[p].id]))
    /\ UNCHANGED <<NotNames, calls>>

\* ------------------------------------------ S3Storage: documents, contracts

\* what readDocument(citation) returns in the current state (<<>> for undefined)
readDocumentValue(citation, error) ==
    LET bytes == readComponent(documents, generateDocumentIdentifier(citation), error)
    IN IF Len(bytes) > 0 THEN component(bytes) ELSE <<>>

\* what readContract(citation) returns in the current state (<<>> for undefined)
readContractValue(citation, error) ==
    LET bytes == readComponent(contracts, generateDocumentIdentifier(citation), error)
    IN IF Len(bytes) > 0 THEN component(bytes) ELSE <<>>

documentExists(p, citation) ==
    /\ Begin(p)
    /\ \E error \in S3Errors :
         LET exists == componentExists(documents, generateDocumentIdentifier(citation), error)
         IN Return(p, Outcome("documentExists", generateDocumentIdentifier(citation), <<>>,
                              IF exists THEN "true" ELSE "false", <<>>, <<>>))
    /\ UNCHANGED <<docState, NotDocs>>

readDocument(p, citation) ==
    /\ Begin(p)
    /\ \E error \in S3Errors :
         Return(p, Outcome("readDocument", generateDocumentIdentifier(citation), <<>>, "ok",
                           readDocumentValue(citation, error), <<>>))
    /\ UNCHANGED <<docState, NotDocs>>

\* writeDocument up to its first await on the driver
writeDocument(p, document) ==
    /\ Begin(p)
    /\ LET identifier == generateDocumentIdentifier(citeDocument(document))
       IN Goto(p, "writeDocument_exists",
               Frame(identifier, identifier, document, contracts[identifier]))
    /\ UNCHANGED <<docState, NotDocs>>

\* a faulty writeDocument_exists: the check looks in the documents bucket
writeDocument_exists_wrongLocation(p) ==
    /\ pc[p] = "writeDocument_exists"
    /\ \E error \in S3Errors :
         IF componentExists(documents, loc[p].id, error)
         THEN Return(p, OutcomeOf(p, "writeDocument", "contractExists", <<>>, documents[loc[p].id]))
         ELSE Goto(p, "writeDocument_write", loc[p])
    /\ UNCHANGED <<docState, NotDocs, calls>>

\* await componentExists(contracts, identifier)
writeDocument_exists(p) ==
    /\ pc[p] = "writeDocument_exists"
    /\ \E error \in S3Errors :
         IF componentExists(contracts, loc[p].id, error)
         THEN Return(p, OutcomeOf(p, "writeDocument", "contractExists", <<>>, documents[loc[p].id]))
         ELSE Goto(p, "writeDocument_write", loc[p])
    /\ UNCHANGED <<docState, NotDocs, calls>>

\* await writeComponent(documents, identifier, document, true); return citation
writeDocument_write(p) ==
    /\ pc[p] = "writeDocument_write"
    /\ documents' = writeComponent(documents, loc[p].id, loc[p].bytes)
    /\ firstDoc' = [firstDoc EXCEPT ![loc[p].id] = IF @ = <<>> THEN loc[p].bytes ELSE @]
    /\ Return(p, OutcomeOf(p, "writeDocument", "ok", citeDocument(loc[p].bytes), documents[loc[p].id]))
    /\ UNCHANGED <<contracts, NotDocs, calls>>

\* deleteDocument: await readComponent(documents, identifier)
deleteDocument(p, citation) ==
    /\ Begin(p)
    /\ \E error \in S3Errors :
         LET identifier == generateDocumentIdentifier(citation)
             bytes == readComponent(documents, identifier, error)
         IN IF Len(bytes) > 0
            THEN Goto(p, "deleteDocument_delete", Frame(identifier, identifier, bytes, <<>>))
            ELSE Return(p, Outcome("deleteDocument", identifier, <<>>, "ok", <<>>, <<>>))
    /\ UNCHANGED <<docState, NotDocs>>

\* await deleteComponent(documents, identifier); return document
deleteDocument_delete(p) ==
    /\ pc[p] = "deleteDocument_delete"
    /\ documents' = deleteObject(documents, loc[p].id)
    /\ Return(p, OutcomeOf(p, "deleteDocument", "ok", component(loc[p].bytes), documents[loc[p].id]))
    /\ UNCHANGED <<contracts, firstDoc, NotDocs, calls>>

contractExists(p, citation) ==
    /\ Begin(p)
    /\ \E error \in S3Errors :
         LET exists == componentExists(contracts, generateDocumentIdentifier(citation), error)
         IN Return(p, Outcome("contractExists", generateDocumentIdentifier(citation), <<>>,
                              IF exists THEN "true" ELSE "false", <<>>, <<>>))
    /\ UNCHANGED <<docState, NotDocs>>

readContract(p, citation) ==
    /\ Begin(p)
    /\ \E error \in S3Errors :
         Return(p, Outcome("readContract", generateDocumentIdentifier(citation), <<>>, "ok",
                           readContractValue(citation, error), <<>>))
    /\ UNCHANGED <<docState, NotDocs>>

\* writeContract up to its first await on the driver
writeContract(p, contract) ==
    /\ Begin(p)
    /\ LET identifier == generateDocumentIdentifier(citeDocument(getDocument(contract)))
       IN Goto(p, "writeContract_exists",
               Frame(identifier, identifier, contract, contracts[identifier]))
    /\ UNCHANGED <<docState, NotDocs>>

\* a faulty writeContract_exists: the existence check is skipped
writeContract_exists_unchecked(p) ==
    /\ pc[p] = "writeContract_exists"
    /\ Goto(p, "writeContract_write", loc[p])
    /\ UNCHANGED <<docState, NotDocs, calls>>

\* await componentExists(contracts, identifier)
writeContract_exists(p) ==
    /\ pc[p] = "writeContract_exists"
    /\ \E error \in S3Errors :
         IF componentExists(contracts, loc[p].id, error)
         THEN Return(p, OutcomeOf(p, "writeContract", "contractExists", <<>>, contracts[loc[p].id]))
         ELSE Goto(p, "writeContract_write", loc[p])
    /\ UNCHANGED <<docState, NotDocs, calls>>

\* await writeComponent(contracts, identifier, contract)
writeContract_write(p) ==
    /\ pc[p] = "writeContract_write"
    /\ contracts' = writeComponent(contracts, loc[p].id, loc[p].bytes)
    /\ Goto(p, "writeContract_delete", loc[p])
    /\ UNCHANGED <<documents, firstDoc, NotDocs, calls>>

\* a faulty writeContract_delete: the staging document is left in place
writeContract_delete_skipped(p) ==
    /\ pc[p] = "writeContract_delete"
    /\ Return(p, OutcomeOf(p, "writeContract", "ok", citeDocument(getDocument(loc[p].bytes)), <<>>))
    /\ UNCHANGED <<docState, NotDocs, calls>>

\* await deleteComponent(documents, identifier); return citation
writeContract_delete(p) ==
    /\ pc[p] = "writeContract_delete"
    /\ \E error \in S3Errors :
         documents' = IF error THEN documents ELSE deleteObject(documents, loc[p].id)
    /\ Return(p, OutcomeOf(p, "writeContract", "ok", citeDocument(getDocument(loc[p].bytes)), <<>>))
    /\ UNCHANGED <<contracts, firstDoc, NotDocs, calls>>

\* ------------------------------------------------ LocalRepository: files
\* A directory is a function from file name to contents, NoBytes for "no such
\* file" (every file written holds at least its EOL).

\* doesExist(filename): pfs.stat succeeds
doesExist(directory, filename) == directory[filename] # NoBytes

\* pfs.writeFile(filename, document + EOL)
writeFile(directory, filename, document) ==
    [directory EXCEPT ![filename] = document \o <<EOL>>]

\* pfs.readFile(filename) then .toString().slice(0, -1)
readFile(directory, filename) ==
    SubSeq(directory[filename], 1, Len(directory[filename]) - 1)

\* pfs.unlink(filename) of an existing file
unlink(directory, filename) == [directory EXCEPT ![filename] = NoBytes]

\* ------------------------------------------ LocalRepository: citations

\* name.replace(/\//g, '_') + '.bali'
citationFile(name) ==
    [i \in 1..Len(name) |-> IF name[i] = SLASH THEN UNDERSCORE ELSE name[i]] \o Extension

CitationFiles == {citationFile(name) : name \in Names}

citationExists(p, name) ==
    /\ Begin(p)
    /\ Return(p, Outcome("citationExists", name, <<>>,
                         IF doesExist(citations, citationFile(name)) THEN "true" ELSE "false",
                         <<>>, <<>>))
    /\ UNCHANGED <<localState, NotLocal>>

\* fetchCitation: await doesExist(filename)
fetchCitation(p, name) ==
    /\ Begin(p)
    /\ IF doesExist(citations, citationFile(name))
       THEN Goto(p, "fetchCitation_read", Frame(name, citationFile(name), <<>>, <<>>))
       ELSE Return(p, Outcome("fetchCitation", name, <<>>, "ok", <<>>, <<>>))
    /\ UNCHANGED <<localState, NotLocal>>

\* await pfs.readFile(filename), which throws when the file is gone
fetchCitation_read(p) ==
    /\ pc[p] = "fetchCitation_read"
    /\ IF doesExist(citations, loc[p].id)
       THEN Return(p, OutcomeOf(p, "fetchCitation", "ok", readFile(citations, loc[p].id), <<>>))
       ELSE Return(p, OutcomeOf(p, "fetchCitation", "unexpected", <<>>, <<>>))
    /\ UNCHANGED <<localState, NotLocal, calls>>

\* createCitation: await doesExist(filename); an existing file is refused
\* with fileExists, rethrown as unexpected
createCitation(p, name, citation) ==
    /\ Begin(p)
    /\ IF doesExist(citations, citationFile(name))
       THEN Return(p, Outcome("createCitation", name, citation, "fileExists", <<>>,
                              citations[citationFile(name)]))
       ELSE Goto(p, "createCitation_write", Frame(name, citationFile(name), citation, <<>>))
    /\ UNCHANGED <<localState, NotLocal>>

\* await pfs.writeFile(filename, citation + EOL, mode 0o400): a file that
\* another caller created meanwhile is read-only, and opening it for writing
\* fails unless the process is privileged
createCitation_write(p) ==
    /\ pc[p] = "createCitation_write"
    /\ \E privileged \in BOOLEAN :
         IF doesExist(citations, loc[p].id) /\ ~privileged
         THEN /\ UNCHANGED <<citations, cited>>
              /\ Return(p, OutcomeOf(p, "createCitation", "unexpected", <<>>, citations[loc[p].id]))
         ELSE /\ citations' = writeFile(citations, loc[p].id, loc[p].bytes)
              /\ cited' = [cited EXCEPT ![loc[p].arg] = IF @ = <<>> THEN loc[p].bytes ELSE @]
              /\ Return(p, OutcomeOf(p, "createCitation", "ok", <<>>, citations[loc[p].id]))
    /\ UNCHANGED <<drafts, lastDraft, prevDraft, localDocs, NotLocal, calls>>

\* -------------------------------- LocalRepository: drafts and documents

draftExists(p, draftId) ==
    /\ Begin(p)
    /\ Return(p, Outcome("draftExists", draftId, <<>>,
                         IF doesExist(drafts, draftId) THEN "true" ELSE "false", <<>>, <<>>))
    /\ UNCHANGED <<localState, NotLocal>>

\* fetchDraft: await doesExist(filename)
fetchDraft(p, draftId) ==
    /\ Begin(p)
    /\ IF doesExist(drafts, draftId)
       THEN Goto(p, "fetchDraft_read", Frame(draftId, draftId, <<>>, <<>>))
       ELSE Return(p, Outcome("fetchDraft", draftId, <<>>, "ok", <<>>, <<>>))
    /\ UNCHANGED <<localState, NotLocal>>

\* await pfs.readFile(filename), which throws when the file is gone
fetchDraft_read(p) ==
    /\ pc[p] = "fetchDraft_read"
    /\ IF doesExist(drafts, loc[p].id)
       THEN Return(p, OutcomeOf(p, "fetchDraft", "ok", readFile(drafts, loc[p].id), <<>>))
       ELSE Return(p, OutcomeOf(p, "fetchDraft", "unexpected", <<>>, <<>>))
    /\ UNCHANGED <<localState, NotLocal, calls>>

\* saveDraft: await pfs.writeFile(filename, draft + EOL, mode 0o600)
saveDraft(p, draftId, draft) ==
    /\ Begin(p)
    /\ drafts' = writeFile(drafts, draftId, draft)
    /\ lastDraft' = [lastDraft EXCEPT ![draftId] = draft]
    /\ prevDraft' = [prevDraft EXCEPT ![draftId] = lastDraft[draftId]]
    /\ Return(p, Outcome("saveDraft", draftId, draft, "ok", <<>>, drafts[draftId]))
    /\ UNCHANGED <<citations, cited, localDocs, NotLocal>>

\* deleteDraft: await doesExist(filename)
deleteDraft(p, draftId) ==
    /\ Begin(p)
    /\ IF doesExist(drafts, draftId)
       THEN Goto(p, "deleteDraft_unlink", Frame(draftId, draftId, <<>>, <<>>))
       ELSE Return(p, Outcome("deleteDraft", draftId, <<>>, "ok", <<>>, <<>>))
    /\ UNCHANGED <<localState, NotLocal>>

\* a faulty deleteDraft_unlink: success is reported and the file is kept
deleteDraft_unlink_kept(p) ==
    /\ pc[p] = "deleteDraft_unlink"
    /\ lastDraft' = [lastDraft EXCEPT ![loc[p].id] = <<>>]
    /\ prevDraft' = [prevDraft EXCEPT ![loc[p].id] = lastDraft[loc[p].id]]
    /\ Return(p, OutcomeOf(p, "deleteDraft", "ok", <<>>, drafts[loc[p].id]))
    /\ UNCHANGED <<citations, cited, drafts, localDocs, NotLocal, calls>>

\* await pfs.unlink(filename), which throws when the file is gone
deleteDraft_unlink(p) ==
    /\ pc[p] = "deleteDraft_unlink"
    /\ IF doesExist(drafts, loc[p].id)
       THEN /\ drafts' = unlink(drafts, loc[p].id)
            /\ lastDraft' = [lastDraft EXCEPT ![loc[p].id] = <<>>]
            /\ prevDraft' = [prevDraft EXCEPT ![loc[p].id] = lastDraft[loc[p].id]]
            /\ Return(p, OutcomeOf(p, "deleteDraft", "ok", <<>>, drafts[loc[p].id]))
       ELSE /\ UNCHANGED <<drafts, lastDraft, prevDraft>>
            /\ Return(p, OutcomeOf(p, "deleteDraft", "unexpected", <<>>, <<>>))
    /\ UNCHANGED <<citations, cited, localDocs, NotLocal, calls>>

localDocumentExists(p, documentId) ==
    /\ Begin(p)
    /\ Return(p, Outcome("documentExists", documentId, <<>>,
                         IF doesExist(localDocs, documentId) THEN "true" ELSE "false", <<>>, <<>>))
    /\ UNCHANGED <<localState, NotLocal>>

\* createDocument: await doesExist(filename); an existing file is refused
\* with fileExists, rethrown as unexpected
createDocument(p, documentId, document) ==
    /\ Begin(p)
    /\ IF doesExist(localDocs, documentId)
       THEN Return(p, Outcome("createDocument", documentId, document, "fileExists", <<>>,
                              localDocs[documentId]))
       ELSE Goto(p, "createDocument_write", Frame(documentId, documentId, document, <<>>))
    /\ UNCHANGED <<localState, NotLocal>>

\* await pfs.writeFile(filename, document + EOL, mode 0o400): a file that
\* another caller created meanwhile is read-only, and opening it for writing
\* fails unless the process is privileged
createDocument_write(p) ==
    /\ pc[p] = "createDocument_write"
    /\ \E privileged \in BOOLEAN :
         IF doesExist(localDocs, loc[p].id) /\ ~privileged
         THEN /\ localDocs' = localDocs
              /\ Return(p, OutcomeOf(p, "createDocument", "unexpected", <<>>, localDocs[loc[p].id]))
         ELSE /\ localDocs' = writeFile(localDocs, loc[p].id, loc[p].bytes)
              /\ Return(p, OutcomeOf(p, "createDocument", "ok", <<>>, localDocs[loc[p].id]))
    /\ UNCHANGED <<citations, cited, drafts, lastDraft, prevDraft, NotLocal, calls>>

\* ----------------------------------------- LocalRepository: message queue

\* queueMessage: messageId = bali.tag().getValue() is a fresh random tag;
\* the queue directory is created on first use; await pfs.writeFile
queueMessage(p, message) ==
    /\ Begin(p)
    /\ queued' = queued + 1
    /\ queueDir' = TRUE
    /\ queueFiles' = writeFile(queueFiles, queued + 1, message)
    /\ sent' = [sent EXCEPT ![queued + 1] = message]
    /\ Return(p, Outcome("queueMessage", <<queued + 1>>, message, "ok", <<>>, <<>>))
    /\ UNCHANGED <<dequeued, NotQueue>>

\* dequeueMessage up to the first evaluation of the loop condition
dequeueMessage(p) ==
    /\ Begin(p)
    /\ Goto(p, "dequeue_exists", NoLoc)
    /\ UNCHANGED <<queueState, NotQueue>>

\* while (await doesExist(queue)); after the loop: return message
dequeue_exists(p) ==
    /\ pc[p] = "dequeue_exists"
    /\ IF queueDir
       THEN Goto(p, "dequeue_readdir", loc[p])
       ELSE Return(p, OutcomeOf(p, "dequeueMessage", "ok", loc[p].bytes, <<>>))
    /\ UNCHANGED <<queueState, NotQueue, calls>>

\* await pfs.readdir(queue); pick messages[generateIndex(count) - 1]
dequeue_readdir(p) ==
    /\ pc[p] = "dequeue_readdir"
    /\ LET files == {m \in MessageIds : doesExist(queueFiles, m)}
       IN IF files # {}
          THEN \E messageFile \in files :
                  Goto(p, "dequeue_read", Frame(<<messageFile>>, messageFile, <<>>, <<>>))
          ELSE Return(p, OutcomeOf(p, "dequeueMessage", "ok", loc[p].bytes, <<>>))
    /\ UNCHANGED <<queueState, NotQueue, calls>>

\* await pfs.readFile(filename): throws when the file is gone, which ends the
\* call with the unexpected exception
dequeue_read(p) ==
    /\ pc[p] = "dequeue_read"
    /\ IF doesExist(queueFiles, loc[p].id)
       THEN Goto(p, "dequeue_unlink", [loc[p] EXCEPT !.bytes = readFile(queueFiles, loc[p].id)])
       ELSE Return(p, OutcomeOf(p, "dequeueMessage", "unexpected", <<>>, <<>>))
    /\ UNCHANGED <<queueState, NotQueue, calls>>

\* a faulty dequeue_unlink: success is reported for a file that is gone
dequeue_unlink_unchecked(p) ==
    /\ pc[p] = "dequeue_unlink"
    /\ queueFiles' = unlink(queueFiles, loc[p].id)
    /\ dequeued' = [dequeued EXCEPT ![loc[p].id] = @ + 1]
    /\ Return(p, OutcomeOf(p, "dequeueMessage", "ok", loc[p].bytes, queueFiles[loc[p].id]))
    /\ UNCHANGED <<queueDir, queued, sent, NotQueue, calls>>

\* try { await pfs.unlink(filename); break; } catch { message = undefined; }
dequeue_unlink(p) ==
    /\ pc[p] = "dequeue_unlink"
    /\ IF doesExist(queueFiles, loc[p].id)
       THEN /\ queueFiles' = unlink(queueFiles, loc[p].id)
            /\ dequeued' = [dequeued EXCEPT ![loc[p].id] = @ + 1]
            /\ Return(p, OutcomeOf(p, "dequeueMessage", "ok", loc[p].bytes, queueFiles[loc[p].id]))
       ELSE /\ UNCHANGED <<queueFiles, dequeued>>
            /\ Goto(p, "dequeue_exists", NoLoc)
    /\ UNCHANGED <<queueDir, queued, sent, NotQueue, calls>>

\* ---------------------------------------------------- S3Storage: messages

\* the key cited by a message's citation, without its state
MessageIdentifier(citation) == <<citation[1], citation[2]>>
AvailableKey(identifier) == generateMessageIdentifier(Bag, "available", identifier)
ProcessingKey(identifier) == generateMessageIdentifier(Bag, "processing", identifier)

\* history: a write under an available key that did not exist creates a message
Created(key) ==
    IF key[1] = "available" /\ Len(messages[key]) = 0
    THEN [created EXCEPT ![<<key[2], key[3]>>] = @ + 1]
    ELSE created

messageCount(p) ==
    /\ Begin(p)
    /\ Return(p, Outcome("messageCount", <<>>, <<>>, "ok",
                         <<Len(listComponents(messages, "available"))>>, <<>>))
    /\ before' = messages
    /\ UNCHANGED <<messages, held, created, delivered, added, NotBag>>

\* addMessage: await this.readContract(bag); a missing contract makes the
\* handler build its noBag exception from `location` and `available`, which
\* are declared further down: the call ends with a ReferenceError
addMessage(p, message) ==
    /\ Begin(p)
    /\ \E error \in S3Errors :
         LET contract == readContractValue(Bag, error)
         IN IF contract = <<>>
            THEN Return(p, Outcome("addMessage", MessageIdentifier(citeDocument(message)), message,
                                   "ReferenceError", <<>>, <<>>))
            ELSE Goto(p, "addMessage_count",
                      Frame(MessageIdentifier(citeDocument(message)),
                            MessageIdentifier(citeDocument(message)), message,
                            <<getDocument(contract)[3]>>))
    /\ before' = messages
    /\ UNCHANGED <<messages, held, created, delivered, added, NotBag>>

\* a faulty addMessage_count: a bag at its capacity still admits a message
addMessage_count_over(p) ==
    /\ pc[p] = "addMessage_count"
    /\ LET capacity == loc[p].start[1]
           current == Len(listComponents(messages, "available"))
       IN IF current > capacity
          THEN Return(p, OutcomeOf(p, "addMessage", "bagFull", <<>>, <<>>))
          ELSE Goto(p, "addMessage_available", loc[p])
    /\ UNCHANGED <<bagState, NotBag, calls>>

\* current = await this.messageCount(bag); if (current >= capacity) throw bagFull
addMessage_count(p) ==
    /\ pc[p] = "addMessage_count"
    /\ LET capacity == loc[p].start[1]
           current == Len(listComponents(messages, "available"))
       IN IF current >= capacity
          THEN Return(p, OutcomeOf(p, "addMessage", "bagFull", <<>>, <<>>))
          ELSE Goto(p, "addMessage_available", loc[p])
    /\ UNCHANGED <<bagState, NotBag, calls>>

\* await componentExists(location, available)
addMessage_available(p) ==
    /\ pc[p] = "addMessage_available"
    /\ \E error \in S3Errors :
         IF componentExists(messages, AvailableKey(loc[p].id), error)
         THEN Return(p, OutcomeOf(p, "addMessage", "messageExists", <<>>, <<>>))
         ELSE Goto(p, "addMessage_processing", loc[p])
    /\ UNCHANGED <<bagState, NotBag, calls>>

\* a faulty addMessage_processing: a borrowed message is added again
addMessage_processing_skipped(p) ==
    /\ pc[p] = "addMessage_processing"
    /\ Goto(p, "addMessage_write", loc[p])
    /\ UNCHANGED <<bagState, NotBag, calls>>

\* await componentExists(location, processing)
addMessage_processing(p) ==
    /\ pc[p] = "addMessage_processing"
    /\ \E error \in S3Errors :
         IF componentExists(messages, ProcessingKey(loc[p].id), error)
         THEN Return(p, OutcomeOf(p, "addMessage", "messageExists", <<>>, <<>>))
         ELSE Goto(p, "addMessage_write", loc[p])
    /\ UNCHANGED <<bagState, NotBag, calls>>

\* await writeComponent(location, available, message, true)
addMessage_write(p) ==
    /\ pc[p] = "addMessage_write"
    /\ messages' = writeComponent(messages, AvailableKey(loc[p].id), loc[p].bytes)
    /\ created' = Created(AvailableKey(loc[p].id))
    /\ added' = [added EXCEPT ![loc[p].id] = loc[p].bytes]
    /\ Return(p, OutcomeOf(p, "addMessage", "ok", <<>>, messages[AvailableKey(loc[p].id)]))
    /\ UNCHANGED <<held, delivered, before, NotBag, calls>>

\* removeMessage up to the first pass of its loop
removeMessage(p) ==
    /\ Begin(p)
    /\ Goto(p, "removeMessage_list", NoLoc)
    /\ before' = messages
    /\ UNCHANGED <<messages, held, created, delivered, added, NotBag>>

\* list = await listComponents(location, available); an empty list ends the
\* call; otherwise an item is picked at random
removeMessage_list(p) ==
    /\ pc[p] = "removeMessage_list"
    /\ LET list == listComponents(messages, "available")
           count == Len(list)
       IN IF count = 0
          THEN Return(p, OutcomeOf(p, "removeMessage", "ok", <<>>, <<>>))
          ELSE \E index \in 1..count :
                  Goto(p, "removeMessage_read", Frame(list[index], list[index], <<>>, <<>>))
    /\ UNCHANGED <<bagState, NotBag, calls>>

\* a faulty removeMessage_read: whatever was read, the loop starts over
removeMessage_read_again(p) ==
    /\ pc[p] = "removeMessage_read"
    /\ Goto(p, "removeMessage_list", NoLoc)
    /\ UNCHANGED <<bagState, NotBag, calls>>

\* bytes = await readComponent(location, availableMessage)
removeMessage_read(p) ==
    /\ pc[p] = "removeMessage_read"
    /\ \E error \in S3Errors :
         LET bytes == readComponent(messages, AvailableKey(loc[p].id), error)
         IN IF Len(bytes) = 0
            THEN Goto(p, "removeMessage_list", NoLoc)
            ELSE Goto(p, "removeMessage_delete", [loc[p] EXCEPT !.bytes = bytes])
    /\ UNCHANGED <<bagState, NotBag, calls>>

\* a faulty removeMessage_delete: the available key is left in place
removeMessage_delete_kept(p) ==
    /\ pc[p] = "removeMessage_delete"
    /\ Goto(p, "removeMessage_write", [loc[p] EXCEPT !.start = messages[AvailableKey(loc[p].id)]])
    /\ UNCHANGED <<bagState, NotBag, calls>>

\* if (! await deleteComponent(location, availableMessage)) continue
removeMessage_delete(p) ==
    /\ pc[p] = "removeMessage_delete"
    /\ \E error \in S3Errors :
         /\ messages' = IF error THEN messages ELSE deleteObject(messages, AvailableKey(loc[p].id))
         /\ IF deleteComponent(messages, AvailableKey(loc[p].id), error)
            THEN Goto(p, "removeMessage_write", [loc[p] EXCEPT !.start = messages[AvailableKey(loc[p].id)]])
            ELSE Goto(p, "removeMessage_list", NoLoc)
    /\ UNCHANGED <<held, created, delivered, added, before, NotBag, calls>>

\* await writeComponent(location, processingMessage, bytes, true); return message
removeMessage_write(p) ==
    /\ pc[p] = "removeMessage_write"
    /\ messages' = writeComponent(messages, ProcessingKey(loc[p].id), loc[p].bytes)
    /\ delivered' = [delivered EXCEPT ![loc[p].id] = @ + 1]
    /\ held' = [held EXCEPT ![p] = @ \cup {component(loc[p].bytes)}]
    /\ Return(p, OutcomeOf(p, "removeMessage", "ok", component(loc[p].bytes), loc[p].start))
    /\ UNCHANGED <<created, added, before, NotBag, calls>>

\* returnMessage up to its first await on the driver
returnMessage(p, message) ==
    /\ Begin(p)
    /\ message[2] < MaxVersion
    /\ held' = [held EXCEPT ![p] = @ \ {message}]
    /\ Goto(p, "returnMessage_delete",
            Frame(MessageIdentifier(citeDocument(message)),
                  MessageIdentifier(citeDocument(message)), message, <<>>))
    /\ before' = messages
    /\ UNCHANGED <<messages, created, delivered, added, NotBag>>

\* a faulty returnMessage_delete: the message keeps its version
returnMessage_delete_sameVersion(p) ==
    /\ pc[p] = "returnMessage_delete"
    /\ messages' = deleteObject(messages, ProcessingKey(loc[p].id))
    /\ Goto(p, "returnMessage_write", [loc[p] EXCEPT !.start = messages[ProcessingKey(loc[p].id)]])
    /\ UNCHANGED <<held, created, delivered, added, before, NotBag, calls>>

\* if (! await deleteComponent(location, processing)) throw leaseExpired;
\* then the message's version is set to the next version
returnMessage_delete(p) ==
    /\ pc[p] = "returnMessage_delete"
    /\ \E error \in S3Errors :
         /\ messages' = IF error THEN messages ELSE deleteObject(messages, ProcessingKey(loc[p].id))
         /\ IF deleteComponent(messages, ProcessingKey(loc[p].id), error)
            THEN LET message == loc[p].bytes
                     version == nextVersion(message[2])
                     bumped == <<message[1], version, message[3]>>
                 IN Goto(p, "returnMessage_write",
                         [loc[p] EXCEPT !.id = MessageIdentifier(citeDocument(bumped)),
                                        !.bytes = bumped,
                                        !.start = messages[ProcessingKey(loc[p].id)]])
            ELSE Return(p, OutcomeOf(p, "returnMessage", "leaseExpired", <<>>, <<>>))
    /\ UNCHANGED <<held, created, delivered, added, before, NotBag, calls>>

\* await writeComponent(location, available, message, true)
returnMessage_write(p) ==
    /\ pc[p] = "returnMessage_write"
    /\ messages' = writeComponent(messages, AvailableKey(loc[p].id), loc[p].bytes)
    /\ created' = Created(AvailableKey(loc[p].id))
    /\ added' = [added EXCEPT ![loc[p].id] = loc[p].bytes]
    /\ Return(p, OutcomeOf(p, "returnMessage", "ok", loc[p].bytes, loc[p].start))
    /\ UNCHANGED <<held, delivered, before, NotBag, calls>>

\* deleteMessage: bytes = await readComponent(location, identifier)
deleteMessage(p, citation) ==
    /\ Begin(p)
    /\ held' = [held EXCEPT ![p] = {m \in @ : citeDocument(m) # citation}]
    /\ \E error \in S3Errors :
         LET identifier == MessageIdentifier(citation)
             bytes == readComponent(messages, ProcessingKey(identifier), error)
         IN IF Len(bytes) > 0
            THEN Goto(p, "deleteMessage_delete", Frame(identifier, identifier, bytes, <<>>))
            ELSE Return(p, Outcome("deleteMessage", identifier, <<>>, "leaseExpired", <<>>, <<>>))
    /\ before' = messages
    /\ UNCHANGED <<messages, created, delivered, added, NotBag>>

\* a faulty deleteMessage_delete: the processing key is left in place
deleteMessage_delete_kept(p) ==
    /\ pc[p] = "deleteMessage_delete"
    /\ Return(p, OutcomeOf(p, "deleteMessage", "ok", component(loc[p].bytes),
                           messages[ProcessingKey(loc[p].id)]))
    /\ UNCHANGED <<bagState, NotBag, calls>>

\* await deleteComponent(location, identifier); return message
deleteMessage_delete(p) ==
    /\ pc[p] = "deleteMessage_delete"
    /\ messages' = deleteObject(messages, ProcessingKey(loc[p].id))
    /\ Return(p, OutcomeOf(p, "deleteMessage", "ok", component(loc[p].bytes),
                           messages[ProcessingKey(loc[p].id)]))
    /\ UNCHANGED <<held, created, delivered, added, before, NotBag, calls>>

\* ------------------------------------------------------------------ Cache

\* a JavaScript Map as the sequence of its <<key, value>> entries in insertion
\* order: has, get (<<>> for undefined), set (a key that is present keeps its
\* place) and delete
MapHas(map, key) == \E i \in 1..Len(map) : map[i][1] = key
MapGet(map, key) ==
    IF MapHas(map, key)
    THEN map[CHOOSE i \in 1..Len(map) : map[i][1] = key][2]
    ELSE <<>>
MapSet(map, key, value) ==
    IF MapHas(map, key)
    THEN [i \in 1..Len(map) |-> IF map[i][1] = key THEN <<key, value>> ELSE map[i]]
    ELSE Append(map, <<key, value>>)
MapDeleteEntry(map, key) ==
    LET Other(entry) == entry[1] # key IN SelectSeq(map, Other)

\* this.read = function(name) { return documents.get(name); }
Cache_read(p, name) ==
    /\ Begin(p)
    /\ Return(p, Outcome("Cache.read", <<name>>, <<>>, "ok", MapGet(cacheDocuments, name), <<>>))
    /\ cacheLog' = Append(cacheLog, <<"read", name>>)
    /\ UNCHANGED <<cacheCapacity, cacheDocuments, NotCache>>

\* this.write: if (documents.size > capacity) the oldest key is to be deleted,
\* but documents.keys().next() is an iterator result {value, done} without a
\* getValue method, so the call ends there with a TypeError; otherwise
\* documents.set(name, document)
Cache_write(p, name, document) ==
    /\ Begin(p)
    /\ IF Len(cacheDocuments) > cacheCapacity
       THEN /\ UNCHANGED cacheDocuments
            /\ Return(p, Outcome("Cache.write", <<name>>, document, "TypeError", <<>>, <<>>))
       ELSE /\ cacheDocuments' = MapSet(cacheDocuments, name, document)
            /\ Return(p, Outcome("Cache.write", <<name>>, document, "ok", <<>>, <<>>))
    /\ cacheLog' = Append(cacheLog, <<"write", name>>)
    /\ UNCHANGED <<cacheCapacity, NotCache>>

\* this.delete = function(name) { documents.delete(name); }
Cache_delete(p, name) ==
    /\ Begin(p)
    /\ cacheDocuments' = MapDeleteEntry(cacheDocuments, name)
    /\ Return(p, Outcome("Cache.delete", <<name>>, <<>>, "ok", <<>>, <<>>))
    /\ cacheLog' = Append(cacheLog, <<"delete", name>>)
    /\ UNCHANGED <<cacheCapacity, NotCache>>

\* ---------------------------------------------------------- CachedStorage
\* The wrapped repository is the S3 storage for citations (its names),
\* documents and messages, and the local directory for drafts.  A call that
\* needs the repository is pushed on the caller's stack; the repository call
\* then runs as the caller's own call, and when it has returned the pushed call
\* resumes with its outcome.

\* generateKey(identifier, version): identifier.toString().slice(1), then '/'
\* and the version when there is one
generateKey(identifier) == Tail(identifier)
generateVersionedKey(tag, version) == Tail(<<HASH, tag>>) \o <<SLASH, version>>

\* Cache.write throws at documents.keys().next().getValue() once the Map holds
\* more entries than the capacity
CacheWriteThrows(map) == Len(map) > cacheCapacity

\* a call is pushed: nothing of the repository has been called yet
Push(p, method, argument, input) ==
    /\ pc[p] = "idle" /\ stack[p] = NoCall /\ calls < MaxCalls
    /\ stack' = [stack EXCEPT ![p] = [op |-> method, arg |-> argument, in |-> input]]
    /\ repositoryCalls' = <<>>
    /\ cacheBefore' = <<cacheCitations, cacheDocuments>>
    /\ ret' = NoRet
    /\ UNCHANGED <<pc, loc, calls, cacheCitations, cacheDocuments, NotCached>>

\* a call answers without the repository
Answer(p, outcome) ==
    /\ stack[p] = NoCall
    /\ Begin(p)
    /\ Return(p, outcome)
    /\ repositoryCalls' = <<>>
    /\ cacheBefore' = <<cacheCitations, cacheDocuments>>
    /\ UNCHANGED <<stack, cacheCitations, cacheDocuments, NotCached>>

\* the pushed call of p is `method` and its repository call has returned
Resumes(p, method) ==
    /\ stack[p].op = method
    /\ pc[p] = "idle"
    /\ ret.by = p

\* the pushed call returns (or throws); `stored` is what the store of its
\* argument held
PopPre(p, status, out, stored) ==
    /\ stack' = [stack EXCEPT ![p] = NoCall]
    /\ ret' = [Outcome(stack[p].op, stack[p].arg, stack[p].in, status, out, stored)
                 EXCEPT !.by = p]
    /\ repositoryCalls' = Append(repositoryCalls, ret.op)
    /\ UNCHANGED <<pc, loc, calls, cacheBefore, NotCached>>

\* the pushed call returns (or throws)
Pop(p, status, out) == PopPre(p, status, out, <<>>)

\* citationExists: if (cache.citations.read(key)) return true; otherwise
\* return await repository.citationExists(name)
Cached_citationExists(p, name) ==
    IF MapGet(cacheCitations, generateKey(name)) # <<>>
    THEN Answer(p, Outcome("Cached.citationExists", name, <<>>, "true", <<>>, <<>>))
    ELSE Push(p, "Cached.citationExists", name, <<>>)

Cached_citationExists_return(p) ==
    /\ Resumes(p, "Cached.citationExists")
    /\ Pop(p, ret.status, <<>>)
    /\ UNCHANGED <<cacheCitations, cacheDocuments>>

\* readCitation: citation = cache.citations.read(key); if (!citation) citation
\* = await repository.readCitation(name)
Cached_readCitation(p, name) ==
    IF MapGet(cacheCitations, generateKey(name)) # <<>>
    THEN Answer(p, Outcome("Cached.readCitation", name, <<>>, "ok",
                           MapGet(cacheCitations, generateKey(name)), <<>>))
    ELSE Push(p, "Cached.readCitation", name, <<>>)

\* if (citation && cache.citations) cache.citations.write(name, citation):
\* the entry is written under the name itself, not under generateKey(name);
\* a throw of the cache ends the call with the unexpected exception
Cached_readCitation_return(p) ==
    /\ Resumes(p, "Cached.readCitation")
    /\ IF ret.out # <<>>
       THEN IF CacheWriteThrows(cacheCitations)
            THEN /\ Pop(p, "unexpected", <<>>)
                 /\ UNCHANGED <<cacheCitations, cacheDocuments>>
            ELSE /\ cacheCitations' = MapSet(cacheCitations, stack[p].arg, ret.out)
                 /\ Pop(p, "ok", ret.out)
                 /\ UNCHANGED cacheDocuments
       ELSE /\ Pop(p, "ok", <<>>)
            /\ UNCHANGED <<cacheCitations, cacheDocuments>>

\* writeCitation: await repository.writeCitation(name, citation)
Cached_writeCitation(p, name, citation) == Push(p, "Cached.writeCitation", name, citation)

\* a faulty Cached_writeCitation_return: the entry is written under the name
Cached_writeCitation_return_unkeyed(p) ==
    /\ Resumes(p, "Cached.writeCitation")
    /\ IF ret.status = "ok" /\ ~CacheWriteThrows(cacheCitations)
       THEN /\ cacheCitations' = MapSet(cacheCitations, stack[p].arg, stack[p].in)
            /\ Pop(p, "ok", <<>>)
       ELSE /\ Pop(p, "unexpected", <<>>)
            /\ UNCHANGED cacheCitations
    /\ UNCHANGED cacheDocuments

\* cache.citations.write(generateKey(name), citation); an exception of the
\* repository or of the cache ends the call with the unexpected exception
Cached_writeCitation_return(p) ==
    /\ Resumes(p, "Cached.writeCitation")
    /\ IF ret.status = "ok" /\ ~CacheWriteThrows(cacheCitations)
       THEN /\ cacheCitations' = MapSet(cacheCitations, generateKey(stack[p].arg), stack[p].in)
            /\ Pop(p, "ok", <<>>)
       ELSE /\ Pop(p, "unexpected", <<>>)
            /\ UNCHANGED cacheCitations
    /\ UNCHANGED cacheDocuments

\* documentExists: if (cache.documents.read(key)) return true; otherwise
\* return await repository.documentExists(tag, version)
Cached_documentExists(p, citation) ==
    IF MapGet(cacheDocuments, generateVersionedKey(citation[1], citation[2])) # <<>>
    THEN Answer(p, Outcome("Cached.documentExists", citation, <<>>, "true", <<>>, <<>>))
    ELSE Push(p, "Cached.documentExists", citation, <<>>)

Cached_documentExists_return(p) ==
    /\ Resumes(p, "Cached.documentExists")
    /\ Pop(p, ret.status, <<>>)
    /\ UNCHANGED <<cacheCitations, cacheDocuments>>

\* readDocument: document = cache.documents.read(key); if (!document)
\* document = await repository.readDocument(tag, version)
Cached_readDocument(p, citation) ==
    IF MapGet(cacheDocuments, generateVersionedKey(citation[1], citation[2])) # <<>>
    THEN Answer(p, Outcome("Cached.readDocument", citation, <<>>, "ok",
                           MapGet(cacheDocuments, generateVersionedKey(citation[1], citation[2])),
                           <<>>))
    ELSE Push(p, "Cached.readDocument", citation, <<>>)

\* if (document) cache.documents.write(key, document)
Cached_readDocument_return(p) ==
    /\ Resumes(p, "Cached.readDocument")
    /\ IF ret.out # <<>>
       THEN IF CacheWriteThrows(cacheDocuments)
            THEN /\ Pop(p, "unexpected", <<>>)
                 /\ UNCHANGED <<cacheCitations, cacheDocuments>>
            ELSE /\ cacheDocuments' =
                        MapSet(cacheDocuments,
                               generateVersionedKey(stack[p].arg[1], stack[p].arg[2]), ret.out)
                 /\ Pop(p, "ok", ret.out)
                 /\ UNCHANGED cacheCitations
       ELSE /\ Pop(p, "ok", <<>>)
            /\ UNCHANGED <<cacheCitations, cacheDocuments>>

\* writeDocument: await repository.writeDocument(document)
Cached_writeDocument(p, document) ==
    Push(p, "Cached.writeDocument", citeDocument(document), document)

\* cache.documents.write(generateKey(tag, version), document); the catch
\* block reads tag and version, which are declared inside the try block, so
\* an exception of the repository or of the cache ends in a ReferenceError
Cached_writeDocument_return(p) ==
    /\ Resumes(p, "Cached.writeDocument")
    /\ IF ret.status = "ok" /\ ~CacheWriteThrows(cacheDocuments)
       THEN /\ cacheDocuments' =
                   MapSet(cacheDocuments,
                          generateVersionedKey(stack[p].in[1], stack[p].in[2]), stack[p].in)
            /\ Pop(p, "ok", <<>>)
       ELSE /\ Pop(p, "ReferenceError", <<>>)
            /\ UNCHANGED cacheDocuments
    /\ UNCHANGED cacheCitations

\* the statuses with which a call of the repository returns normally
Returned == {"ok", "true", "false"}

\* a pass-through: return await repository.method(...); an exception of the
\* repository ends the call with the exception that the catch block builds
PassThrough(p, method, exception) ==
    /\ Resumes(p, method)
    /\ IF ret.status \in Returned
       THEN Pop(p, ret.status, ret.out)
       ELSE Pop(p, exception, <<>>)
    /\ UNCHANGED <<cacheCitations, cacheDocuments>>

\* draftExists: pass-through, drafts are not cached
Cached_draftExists(p, draftId) == Push(p, "Cached.draftExists", draftId, <<>>)

Cached_draftExists_return(p) == PassThrough(p, "Cached.draftExists", "unexpected")

\* readDraft: pass-through, drafts are not cached
Cached_readDraft(p, draftId) == Push(p, "Cached.readDraft", draftId, <<>>)

\* a faulty Cached_readDraft_return: the draft that was read is cached
Cached_readDraft_return_cached(p) ==
    /\ Resumes(p, "Cached.readDraft")
    /\ Pop(p, ret.status, ret.out)
    /\ cacheDocuments' = IF ret.out # <<>> /\ ~CacheWriteThrows(cacheDocuments)
                         THEN MapSet(cacheDocuments, stack[p].arg, ret.out)
                         ELSE cacheDocuments
    /\ UNCHANGED cacheCitations

Cached_readDraft_return(p) == PassThrough(p, "Cached.readDraft", "unexpected")

\* writeDraft: pass-through; the catch block reads tag and version, which
\* are not declared in the function, so an exception of the repository ends
\* in a ReferenceError
Cached_writeDraft(p, draftId, draft) == Push(p, "Cached.writeDraft", draftId, draft)

Cached_writeDraft_return(p) == PassThrough(p, "Cached.writeDraft", "ReferenceError")

\* deleteDraft: pass-through, drafts are not cached
Cached_deleteDraft(p, draftId) == Push(p, "Cached.deleteDraft", draftId, <<>>)

Cached_deleteDraft_return(p) == PassThrough(p, "Cached.deleteDraft", "unexpected")

\* messageCount: pass-through, messages are not cached
Cached_messageCount(p) == Push(p, "Cached.messageCount", <<>>, <<>>)

Cached_messageCount_return(p) == PassThrough(p, "Cached.messageCount", "unexpected")

\* addMessage: pass-through; the catch block reads identifier, which is not
\* declared in the function, so an exception of the repository ends in a
\* ReferenceError
Cached_addMessage(p, message) == Push(p, "Cached.addMessage", <<>>, message)

Cached_addMessage_return(p) == PassThrough(p, "Cached.addMessage", "ReferenceError")

\* removeMessage: pass-through, messages are not cached
Cached_removeMessage(p) == Push(p, "Cached.removeMessage", <<>>, <<>>)

Cached_removeMessage_return(p) == PassThrough(p, "Cached.removeMessage", "unexpected")

\* the repository call of the pushed call of p starts
Cached_repository(p) ==
    /\ stack[p] # NoCall
    /\ ret = NoRet
    /\ \/ stack[p].op = "Cached.citationExists" /\ nameExists(p, stack[p].arg)
       \/ stack[p].op = "Cached.readCitation" /\ readName(p, stack[p].arg)
       \/ stack[p].op = "Cached.writeCitation" /\ writeName(p, stack[p].arg, stack[p].in)
       \/ stack[p].op = "Cached.documentExists" /\ documentExists(p, stack[p].arg)
       \/ stack[p].op = "Cached.readDocument" /\ readDocument(p, stack[p].arg)
       \/ stack[p].op = "Cached.writeDocument" /\ writeDocument(p, stack[p].in)
       \/ stack[p].op = "Cached.draftExists" /\ draftExists(p, stack[p].arg)
       \/ stack[p].op = "Cached.readDraft" /\ fetchDraft(p, stack[p].arg)
       \/ stack[p].op = "Cached.writeDraft" /\ saveDraft(p, stack[p].arg, stack[p].in)
       \/ stack[p].op = "Cached.deleteDraft" /\ deleteDraft(p, stack[p].arg)
       \/ stack[p].op = "Cached.messageCount" /\ messageCount(p)
       \/ stack[p].op = "Cached.addMessage" /\ addMessage(p, stack[p].in)
       \/ stack[p].op = "Cached.removeMessage" /\ removeMessage(p)

\* ------------------------------------- CachedStorage over LocalRepository
\* A second CachedStorage, constructed over the LocalRepository: its methods
\* are the same code and read and write the same module-level cache.

\* citationExists of the second instance
CachedLocal_citationExists(p, name) ==
    IF MapGet(cacheCitations, generateKey(name)) # <<>>
    THEN Answer(p, Outcome("CachedLocal.citationExists", name, <<>>, "true", <<>>, <<>>))
    ELSE Push(p, "CachedLocal.citationExists", name, <<>>)

CachedLocal_citationExists_return(p) ==
    /\ Resumes(p, "CachedLocal.citationExists")
    /\ Pop(p, ret.status, <<>>)
    /\ UNCHANGED <<cacheCitations, cacheDocuments>>

\* readCitation of the second instance
CachedLocal_readCitation(p, name) ==
    IF MapGet(cacheCitations, generateKey(name)) # <<>>
    THEN Answer(p, Outcome("CachedLocal.readCitation", name, <<>>, "ok",
                           MapGet(cacheCitations, generateKey(name)), <<>>))
    ELSE Push(p, "CachedLocal.readCitation", name, <<>>)

\* if (citation && cache.citations) cache.citations.write(name, citation)
CachedLocal_readCitation_return(p) ==
    /\ Resumes(p, "CachedLocal.readCitation")
    /\ IF ret.status = "ok" /\ ret.out # <<>>
       THEN IF CacheWriteThrows(cacheCitations)
            THEN /\ Pop(p, "unexpected", <<>>)
                 /\ UNCHANGED <<cacheCitations, cacheDocuments>>
            ELSE /\ cacheCitations' = MapSet(cacheCitations, stack[p].arg, ret.out)
                 /\ Pop(p, "ok", ret.out)
                 /\ UNCHANGED cacheDocuments
       ELSE /\ Pop(p, ret.status, <<>>)
            /\ UNCHANGED <<cacheCitations, cacheDocuments>>

\* the pushed call of the second instance calls its repository
CachedLocal_repository(p) ==
    /\ stack[p] # NoCall
    /\ ret = NoRet
    /\ \/ stack[p].op = "CachedLocal.citationExists" /\ citationExists(p, stack[p].arg)
       \/ stack[p].op = "CachedLocal.readCitation" /\ fetchCitation(p, stack[p].arg)

\* ------------------------------------------------------ DocumentRepository
\* The repository API over a storage: names and documents are kept by the S3
\* storage, drafts by the LocalRepository. A call is pushed like a call of
\* CachedStorage and makes its storage calls one after the other.

\* document.getValue('$content')
getContent(document) == <<document[3]>>

\* commitDocument: if (await storage.nameExists(name)) throw nameExists
commitDocument(p, name, document) == Push(p, "commitDocument", name, document)

\* Both ways end in the catch block, which throws the unexpected
\* exception: the nameExists exception is thrown inside the try block, and
\* for a free name `notary.notarizeDocument(document)` reads a variable that
\* DocumentRepository(storage, debug) does not have, a ReferenceError.
\* Neither writeDocument nor writeName is reached.
commitDocument_return(p) ==
    /\ Resumes(p, "commitDocument")
    /\ PopPre(p, "unexpected", <<>>, names[generateNameIdentifier(stack[p].arg)])
    /\ UNCHANGED <<cacheCitations, cacheDocuments>>

\* retrieveName: const citation = await storage.readName(name)
retrieveName(p, name) == Push(p, "retrieveName", name, <<>>)

\* const document = await storage.readDocument(citation): for an undefined
\* citation generateDocumentIdentifier throws a TypeError
retrieveName_readDocument(p) ==
    /\ Resumes(p, "retrieveName")
    /\ repositoryCalls = <<>>
    /\ IF ret.out = <<>>
       THEN Pop(p, "unexpected", <<>>)
       ELSE /\ stack' = [stack EXCEPT ![p].in = ret.out]
            /\ repositoryCalls' = <<ret.op>>
            /\ ret' = NoRet
            /\ UNCHANGED <<pc, loc, calls, cacheBefore, NotCached>>
    /\ UNCHANGED <<cacheCitations, cacheDocuments>>

\* return document.getValue('$content'), a TypeError for an undefined document
retrieveName_return(p) ==
    /\ Resumes(p, "retrieveName")
    /\ repositoryCalls # <<>>
    /\ IF ret.out = <<>>
       THEN Pop(p, "unexpected", <<>>)
       ELSE Pop(p, "ok", getContent(ret.out))
    /\ UNCHANGED <<cacheCitations, cacheDocuments>>

\* retrieveDocument: const document = await storage.readDraft(citation)
retrieveDocument(p, citation) == Push(p, "retrieveDocument", citation, <<>>)

\* return document.getValue('$content'), a TypeError for an undefined
\* document, which the catch block wraps in the unexpected exception
retrieveDocument_return(p) ==
    /\ Resumes(p, "retrieveDocument")
    /\ IF ret.status # "ok" \/ ret.out = <<>>
       THEN PopPre(p, "unexpected", <<>>, drafts[<<stack[p].arg[1], stack[p].arg[2]>>])
       ELSE PopPre(p, "ok", getContent(ret.out), drafts[<<stack[p].arg[1], stack[p].arg[2]>>])
    /\ UNCHANGED <<cacheCitations, cacheDocuments>>

\* a faulty DocumentRepository_storage: commitDocument goes straight to
\* storage.writeDocument(document)
DocumentRepository_storage_writing(p) ==
    /\ stack[p] # NoCall
    /\ ret = NoRet
    /\ \/ stack[p].op = "commitDocument" /\ writeDocument(p, stack[p].in)
       \/ stack[p].op = "retrieveName" /\ repositoryCalls = <<>> /\ readName(p, stack[p].arg)
       \/ stack[p].op = "retrieveName" /\ repositoryCalls # <<>> /\ readDocument(p, stack[p].in)
       \/ stack[p].op = "retrieveDocument"
             /\ fetchDraft(p, <<stack[p].arg[1], stack[p].arg[2]>>)

\* the next storage call of the pushed call of p starts
DocumentRepository_storage(p) ==
    /\ stack[p] # NoCall
    /\ ret = NoRet
    /\ \/ stack[p].op = "commitDocument" /\ nameExists(p, stack[p].arg)
       \/ stack[p].op = "retrieveName" /\ repositoryCalls = <<>> /\ readName(p, stack[p].arg)
       \/ stack[p].op = "retrieveName" /\ repositoryCalls # <<>> /\ readDocument(p, stack[p].in)
       \/ stack[p].op = "retrieveDocument"
             /\ fetchDraft(p, <<stack[p].arg[1], stack[p].arg[2]>>)

\* --------------------------------------------------------- specifications

\* everything but the contracts and the messages buckets, as the
\* constructors leave it
InitOthers ==
    /\ names = [n \in NameKeys |-> NoBytes]
    /\ documents = [d \in DocumentKeys |-> NoBytes]
    /\ pc = [p \in Procs |-> "idle"]
    /\ loc = [p \in Procs |-> NoLoc]
    /\ ret = NoRet
    /\ calls = 0
    /\ wins = [n \in Names |-> 0]
    /\ bound = [n \in Names |-> <<>>]
    /\ firstDoc = [d \in DocumentKeys |-> <<>>]
    /\ citations = [n \in CitationFiles |-> NoBytes]
    /\ cited = [n \in Names |-> <<>>]
    /\ drafts = [d \in DocumentIds |-> NoBytes]
    /\ lastDraft = [d \in DocumentIds |-> <<>>]
    /\ prevDraft = [d \in DocumentIds |-> <<>>]
    /\ localDocs = [d \in DocumentIds |-> NoBytes]
    /\ queueDir = FALSE
    /\ queueFiles = [m \in MessageIds |-> NoBytes]
    /\ queued = 0
    /\ dequeued = [m \in MessageIds |-> 0]
    /\ sent = [m \in MessageIds |-> <<>>]
    /\ held = [p \in Procs |-> {}]
    /\ cacheDocuments = <<>>
    /\ cacheLog = <<>>
    /\ cacheCitations = <<>>
    /\ stack = [p \in Procs |-> NoCall]
    /\ repositoryCalls = <<>>
    /\ cacheBefore = <<<<>>, <<>>>>

\* everything but the contracts bucket, as the constructors leave it
InitStores ==
    /\ InitOthers
    /\ messages = [k \in MessageKeys |-> NoBytes]
    /\ created = [k \in MessageIdentifiers |-> 0]
    /\ delivered = [k \in MessageIdentifiers |-> 0]
    /\ added = [k \in MessageIdentifiers |-> <<>>]
    /\ before = [k \in MessageKeys |-> NoBytes]

\* an empty repository
Init ==
    /\ InitStores
    /\ faulty = FALSE
    /\ contracts = [d \in DocumentKeys |-> NoBytes]
    /\ cacheCapacity = CACHE_SIZE

\* an empty repository and an empty Cache of some capacity
InitCache ==
    /\ InitStores
    /\ faulty = FALSE
    /\ contracts = [d \in DocumentKeys |-> NoBytes]
    /\ \E capacity \in 1..CACHE_SIZE : cacheCapacity = capacity

\* the contracts bucket holding only the contract of a bag of some capacity
BagCommitted(capacity) ==
    [d \in DocumentKeys |->
        IF d = generateDocumentIdentifier(Bag)
        THEN BagContractOf(capacity) \o <<EOL>>
        ELSE NoBytes]

\* an empty bag: the repository after the bag's contract has been committed
InitBag ==
    /\ InitStores
    /\ faulty = FALSE
    /\ cacheCapacity = CACHE_SIZE
    /\ \E capacity \in 1..Capacity : contracts = BagCommitted(capacity)

\* an empty bag, or a bag that was never created
InitEither ==
    /\ InitStores
    /\ faulty = FALSE
    /\ cacheCapacity = CACHE_SIZE
    /\ \/ contracts = [d \in DocumentKeys |-> NoBytes]
       \/ \E capacity \in 1..Capacity : contracts = BagCommitted(capacity)

\* concurrent callers of the S3 name operations
NextNames ==
    \E p \in Procs :
        \/ \E name \in Names : nameExists(p, name)
        \/ \E name \in Names : readName(p, name)
        \/ \E name \in Names, citation \in Citations : writeName(p, name, citation)
        \/ writeName_exists(p)
        \/ writeName_write(p)

SpecNames == Init /\ [][NextNames]_vars

\* one caller, one call at a time, of the S3 name operations and of the
\* LocalRepository citation operations
NextNamesSeq ==
    \E p \in SeqProcs :
        \/ \E name \in Names : nameExists(p, name)
        \/ \E name \in Names : readName(p, name)
        \/ \E name \in Names, citation \in Citations : writeName(p, name, citation)
        \/ writeName_exists(p)
        \/ writeName_write(p)
        \/ \E name \in Names : citationExists(p, name)
        \/ \E name \in Names : fetchCitation(p, name)
        \/ fetchCitation_read(p)
        \/ \E name \in Names, citation \in Citations : createCitation(p, name, citation)
        \/ createCitation_write(p)

SpecNamesSeq == Init /\ [][NextNamesSeq]_vars

\* the S3 document and contract operations, a step of caller p
DocsStep(p) ==
    \/ \E citation \in Citations : documentExists(p, citation)
    \/ \E citation \in Citations : readDocument(p, citation)
    \/ \E document \in Documents : writeDocument(p, document)
    \/ writeDocument_exists(p)
    \/ writeDocument_write(p)
    \/ \E citation \in Citations : deleteDocument(p, citation)
    \/ deleteDocument_delete(p)
    \/ \E citation \in Citations : contractExists(p, citation)
    \/ \E citation \in Citations : readContract(p, citation)
    \/ \E contract \in Contracts : writeContract(p, contract)
    \/ writeContract_exists(p)
    \/ writeContract_write(p)
    \/ writeContract_delete(p)

\* concurrent callers
NextDocs == \E p \in Procs : DocsStep(p)

SpecDocs == Init /\ [][NextDocs]_vars

\* one caller, one call at a time
NextDocsSeq == \E p \in SeqProcs : DocsStep(p)

SpecDocsSeq == Init /\ [][NextDocsSeq]_vars

\* the LocalRepository draft and document operations, a step of caller p
LocalStep(p) ==
    \/ \E id \in DocumentIds : draftExists(p, id)
    \/ \E id \in DocumentIds : fetchDraft(p, id)
    \/ fetchDraft_read(p)
    \/ \E id \in DocumentIds, d \in Documents : saveDraft(p, id, d)
    \/ \E id \in DocumentIds : deleteDraft(p, id)
    \/ deleteDraft_unlink(p)
    \/ \E id \in DocumentIds : localDocumentExists(p, id)
    \/ \E id \in DocumentIds, d \in Documents : createDocument(p, id, d)
    \/ createDocument_write(p)

\* one caller, one call at a time
NextLocalSeq == \E p \in SeqProcs : LocalStep(p)

SpecLocalSeq == Init /\ [][NextLocalSeq]_vars

\* concurrent callers of the LocalRepository queue operations
NextQueue ==
    \E p \in Procs :
        \/ \E message \in Payloads : queueMessage(p, message)
        \/ dequeueMessage(p)
        \/ dequeue_exists(p)
        \/ dequeue_readdir(p)
        \/ dequeue_read(p)
        \/ dequeue_unlink(p)

SpecQueue == Init /\ [][NextQueue]_vars

\* the S3 message operations, a step of caller p; a caller returns or deletes
\* only messages it has borrowed
BagStep(p) ==
    \/ messageCount(p)
    \/ \E message \in NewMessages : addMessage(p, message)
    \/ addMessage_count(p)
    \/ addMessage_available(p)
    \/ addMessage_processing(p)
    \/ addMessage_write(p)
    \/ removeMessage(p)
    \/ removeMessage_list(p)
    \/ removeMessage_read(p)
    \/ removeMessage_delete(p)
    \/ removeMessage_write(p)
    \/ \E message \in held[p] : returnMessage(p, message)
    \/ returnMessage_delete(p)
    \/ returnMessage_write(p)
    \/ \E message \in held[p] : deleteMessage(p, citeDocument(message))
    \/ deleteMessage_delete(p)

\* concurrent callers
NextBag == \E p \in Procs : BagStep(p)

SpecBag == InitBag /\ [][NextBag]_vars

\* one caller, one call at a time
NextBagSeq == \E p \in SeqProcs : BagStep(p)

SpecBagSeq == InitBag /\ [][NextBagSeq]_vars

\* the messages that have been in the bag, as last written to it
Known == {message \in Messages : added[MessageIdentifier(citeDocument(message))] = message}

\* the S3 message operations, a step of caller p that may return or delete
\* any message that has been in the bag, whether it holds it or not
AnyBagStep(p) ==
    \/ BagStep(p)
    \/ \E message \in Known : returnMessage(p, message)
    \/ \E message \in Known : deleteMessage(p, citeDocument(message))

\* one caller, one call at a time, on a bag that may never have been created
NextBagAnySeq == \E p \in SeqProcs : AnyBagStep(p)

SpecBagAnySeq == InitEither /\ [][NextBagAnySeq]_vars

\* one caller, one call at a time, of the S3 message operations on a bag that
\* may never have been created and of the LocalRepository queue operations
NextBorrowSeq ==
    \E p \in SeqProcs :
        \/ BagStep(p)
        \/ \E message \in Payloads : queueMessage(p, message)
        \/ dequeueMessage(p)
        \/ dequeue_exists(p)
        \/ dequeue_readdir(p)
        \/ dequeue_read(p)
        \/ dequeue_unlink(p)

SpecBorrowSeq == InitEither /\ [][NextBorrowSeq]_vars

\* ------------------------------------------------------------------ claims

\* C3 (as claimed): across any interleaving of concurrent writeName calls on a
\* name at most one call succeeds, and once the name is bound the stored
\* binding never changes.
C3_NameImmutableUnderConcurrency ==
    [][\A n \in Names :
          /\ wins'[n] <= 1
          /\ (Len(names[generateNameIdentifier(n)]) > 0 => UNCHANGED names[generateNameIdentifier(n)])]_vars

Quiescent == \A p \in Procs : pc[p] = "idle"

\* C8: with one caller at a time, a readDocument after a successful
\* writeDocument(d) returns d, a readContract after a successful writeContract
\* returns the contract, and once the contract is written no document is
\* readable under its citation.
C8_DocumentContractPromotion ==
    Quiescent =>
    /\ \A c \in Citations :
          readContractValue(c, FALSE) # <<>> => readDocumentValue(c, FALSE) = <<>>
    /\ LET r == ret IN
          /\ r.op = "writeDocument" /\ r.status = "ok" =>
                /\ r.out = citeDocument(r.in)
                /\ readDocumentValue(r.out, FALSE) = r.in
          /\ r.op = "writeContract" /\ r.status = "ok" =>
                /\ r.out = citeDocument(getDocument(r.in))
                /\ readContractValue(r.out, FALSE) = r.in
                /\ readDocumentValue(r.out, FALSE) = <<>>
          /\ r.op = "readDocument" /\ Len(contracts[r.arg]) > 0 => r.out = <<>>

\* C8 witness: a document was written and then promoted, and the read of the
\* document that followed returned nothing
C8_Witness ==
    /\ ret.op = "readDocument" /\ ret.out = <<>>
    /\ firstDoc[ret.arg] # <<>>
    /\ Len(contracts[ret.arg]) > 0
    /\ getDocument(component(contracts[ret.arg])) = firstDoc[ret.arg]

\* C9 (as claimed): a writeDocument under a key that already holds a document
\* with different bytes is rejected and the stored bytes are unchanged; the
\* bytes read for a document key are those of its first successful write.
C9_DocumentImmutable ==
    /\ LET r == ret IN
          (r.op = "writeDocument" /\ Len(r.pre) > 0 /\ component(r.pre) # r.in) =>
              (r.status # "ok" /\ documents[r.arg] = r.pre)
    /\ \A c \in Citations :
          readDocumentValue(c, FALSE) # <<>> =>
              readDocumentValue(c, FALSE) = firstDoc[generateDocumentIdentifier(c)]

\* C10: a writeDocument call that starts when a contract with the same tag and
\* version exists never reaches its write to the documents bucket, and ends
\* with contractExists.
C10_WriteDocumentRefusedByContract ==
    /\ \A p \in SeqProcs : pc[p] = "writeDocument_write" => loc[p].start = NoBytes
    /\ (ret.op = "writeDocument" /\ ret.start # NoBytes) =>
          (ret.status = "contractExists" /\ ret.out = <<>>)

\* C10 witness: a writeDocument was refused although no document was stored
C10_Witness ==
    /\ ret.op = "writeDocument" /\ ret.status = "contractExists"
    /\ ret.start # NoBytes /\ ret.pre = NoBytes

\* C7 (as claimed): after any sequence of saveDraft, deleteDraft and
\* createDocument no identifier has both a stored draft and a stored document.
C7_DraftDocumentExclusive ==
    Quiescent =>
        \A id \in DocumentIds : ~(doesExist(drafts, id) /\ doesExist(localDocs, id))

\* C2: under every interleaving of the readdir, readFile and unlink steps of
\* concurrent dequeueMessage calls, each queued message file is returned by at
\* most one call, and a call returns a message only if its own unlink removed
\* the file.
C2_DequeueAtMostOnce ==
    /\ \A m \in MessageIds : dequeued[m] <= 1
    /\ (ret.op = "dequeueMessage" /\ ret.out # <<>>) =>
          /\ ret.status = "ok"
          /\ ret.pre # NoBytes
          /\ dequeued[ret.arg[1]] = 1
          /\ ~doesExist(queueFiles, ret.arg[1])

\* C2 witness: a caller has read a message file and is about to unlink it, but
\* another caller has already returned that message
C2_Witness ==
    \E q \in Procs :
        /\ ret.by # q
        /\ pc[q] = "dequeue_unlink" /\ loc[q].bytes # <<>>
        /\ ret.op = "dequeueMessage" /\ ret.arg = <<loc[q].id>> /\ ret.out = loc[q].bytes
        /\ dequeued[loc[q].id] = 1

\* C1 (as claimed): under every interleaving of concurrent removeMessage
\* calls, each message that became available is returned by at most one call.
C1_BorrowAtMostOnce ==
    \A k \in MessageIdentifiers : delivered[k] <= created[k]

\* C5 (as claimed): the number of keys in the bag's available state never
\* exceeds the $capacity of the bag's contract.
C5_BagCapacity ==
    Len(listComponents(messages, "available")) <= getDocument(readContractValue(Bag, FALSE))[3]

\* C6 (as claimed): for each message tag and version at most one of its
\* available key and its processing key exists.
C6_MessageSingleState ==
    \A k \in MessageIdentifiers :
        ~(Len(messages[AvailableKey(k)]) > 0 /\ Len(messages[ProcessingKey(k)]) > 0)

\* the callers of a Cache: its methods run to completion, one at a time
NextCache ==
    \E p \in SeqProcs :
        \/ \E name \in CacheKeys : Cache_read(p, name)
        \/ \E name \in CacheKeys, document \in Documents : Cache_write(p, name, document)
        \/ \E name \in CacheKeys : Cache_delete(p, name)

SpecCache == InitCache /\ [][NextCache]_vars

\* C11: with one caller at a time, a stored draft is exactly the draft last
\* saved under its identifier (a later saveDraft replaces an earlier one) and
\* is absent after deleteDraft; fetchDraft returns it, or nothing when it is
\* absent; draftExists tells whether it is there; deleteDraft of an absent
\* draft returns normally and leaves it absent.
C11_DraftLifecycle ==
    /\ \A id \in DocumentIds :
          drafts[id] = IF lastDraft[id] = <<>> THEN NoBytes ELSE lastDraft[id] \o <<EOL>>
    /\ LET r == ret IN
          /\ r.op = "saveDraft" => r.status = "ok" /\ lastDraft[r.arg] = r.in
          /\ r.op = "fetchDraft" => r.status = "ok" /\ r.out = lastDraft[r.arg]
          /\ r.op = "draftExists" => (r.status = "true") = (lastDraft[r.arg] # <<>>)
          /\ r.op = "deleteDraft" =>
                /\ r.status = "ok"
                /\ lastDraft[r.arg] = <<>>
                /\ ~doesExist(drafts, r.arg)

\* C11 witness: a fetchDraft has returned the second of two different drafts
\* saved under one identifier
C11_Witness ==
    /\ ret.op = "fetchDraft" /\ ret.out # <<>>
    /\ prevDraft[ret.arg] # <<>> /\ prevDraft[ret.arg] # ret.out

\* C12: with one caller at a time, every message written to a bag or to a
\* queue is handed out exactly once: a stored message is one that was written
\* and not yet handed out, removeMessage and dequeueMessage return nothing
\* only when nothing is stored (so also for a bag or queue never created), and
\* what they return is a message as it was written, now no longer available.
C12_SequentialBorrowExhausts ==
    /\ Quiescent =>
          /\ \A k \in MessageIdentifiers :
                created[k] - delivered[k] = IF Len(messages[AvailableKey(k)]) > 0 THEN 1 ELSE 0
          /\ \A m \in MessageIds :
                /\ dequeued[m] <= 1
                /\ doesExist(queueFiles, m) = (m <= queued /\ dequeued[m] = 0)
    /\ ret.op = "removeMessage" =>
          /\ ret.status = "ok"
          /\ ret.out = <<>> => listComponents(messages, "available") = <<>>
          /\ ret.out # <<>> =>
                /\ ret.out = added[ret.arg]
                /\ Len(messages[AvailableKey(ret.arg)]) = 0
                /\ delivered[ret.arg] = created[ret.arg]
    /\ ret.op = "dequeueMessage" =>
          /\ ret.status = "ok"
          /\ ret.out = <<>> => \A m \in MessageIds : ~doesExist(queueFiles, m)
          /\ ret.out # <<>> =>
                /\ ret.out = sent[ret.arg[1]]
                /\ ~doesExist(queueFiles, ret.arg[1])
                /\ dequeued[ret.arg[1]] = 1

\* C12 witness: a removeMessage has returned nothing from a bag whose
\* messages were all handed out before
C12_Witness ==
    /\ ret.op = "removeMessage" /\ ret.out = <<>>
    /\ \E k \in MessageIdentifiers : delivered[k] > 0

\* C13: with one caller at a time, a message that removeMessage has returned
\* is stored under its processing key and not under its available key; a
\* returnMessage of it removes the processing key and stores the message,
\* content unchanged, under the available key of its next version; a later
\* removeMessage returns the message at that version.
C13_BorrowReturnCycle ==
    /\ (ret.op = "removeMessage" /\ ret.out # <<>>) =>
          /\ ret.out = added[ret.arg]
          /\ MessageIdentifier(citeDocument(ret.out)) = ret.arg
          /\ component(messages[ProcessingKey(ret.arg)]) = ret.out
          /\ Len(messages[AvailableKey(ret.arg)]) = 0
    /\ ret.op = "returnMessage" =>
          LET next == <<ret.arg[1], nextVersion(ret.arg[2])>> IN
          /\ ret.status = "ok"
          /\ ret.start # NoBytes
          /\ Len(messages[ProcessingKey(ret.arg)]) = 0
          /\ component(messages[AvailableKey(next)]) =
                <<ret.arg[1], nextVersion(ret.arg[2]), component(ret.start)[3]>>
          /\ added[next] = component(messages[AvailableKey(next)])

\* C13 witness: a removeMessage has returned a message at its second version,
\* that is after it was added, borrowed and returned
C13_Witness ==
    /\ ret.op = "removeMessage" /\ ret.out # <<>>
    /\ ret.out[2] = nextVersion(1)
    /\ delivered[<<ret.out[1], 1>>] > 0

\* C14: with one caller at a time, a returnMessage of a message whose
\* processing key does not exist (never borrowed, already acknowledged,
\* already returned) fails with leaseExpired and writes nothing: no write of
\* an available entry is pending without the processing key having been
\* there, and the call ends with leaseExpired, the bag as it was.
C14_ReturnWithoutLease ==
    /\ \A p \in SeqProcs : pc[p] = "returnMessage_write" => loc[p].start # NoBytes
    /\ (ret.op = "returnMessage" /\ ret.start = NoBytes) =>
          /\ ret.status = "leaseExpired"
          /\ messages = before

\* C15: with one caller at a time, deleteMessage of a citation whose
\* processing key exists returns the message stored under that key (the
\* message as it was last written to the bag) and the key is gone afterwards;
\* when the processing key is absent the call fails with leaseExpired and no
\* stored object has changed.
C15_Acknowledge ==
    ret.op = "deleteMessage" =>
       IF Len(before[ProcessingKey(ret.arg)]) > 0
       THEN /\ ret.status = "ok"
            /\ ret.out = component(before[ProcessingKey(ret.arg)])
            /\ ret.out = added[ret.arg]
            /\ Len(messages[ProcessingKey(ret.arg)]) = 0
            /\ \A key \in MessageKeys : key # ProcessingKey(ret.arg) => messages[key] = before[key]
       ELSE /\ ret.status = "leaseExpired"
            /\ messages = before

\* C15 witness: a deleteMessage has returned a borrowed message
C15_Witness ==
    /\ ret.op = "deleteMessage" /\ ret.status = "ok" /\ ret.out # <<>>
    /\ delivered[ret.arg] > 0

\* C16: with one caller at a time, an addMessage to a bag that already holds
\* as many available messages as its contract's $capacity, or more, fails with
\* bagFull and writes no key; below the capacity the call does not fail with
\* bagFull, and a message neither available nor borrowed is then stored under
\* its available key.
C16_CapacityAdmission ==
    (ret.op = "addMessage" /\ ret.start # <<>>) =>
       LET capacity == getDocument(readContractValue(Bag, FALSE))[3]
           current == Len(listComponents(before, "available"))
       IN /\ ret.start = <<capacity>>
          /\ current >= capacity => ret.status = "bagFull" /\ messages = before
          /\ current < capacity => ret.status # "bagFull"
          /\ (/\ current < capacity
              /\ Len(before[AvailableKey(ret.arg)]) = 0
              /\ Len(before[ProcessingKey(ret.arg)]) = 0) =>
                /\ ret.status = "ok"
                /\ component(messages[AvailableKey(ret.arg)]) = ret.in

\* C16 witness: in a bag of capacity 2 two messages were added, none was
\* borrowed, and a third addMessage has failed with bagFull
C16_Witness ==
    /\ ret.op = "addMessage" /\ ret.status = "bagFull" /\ ret.start = <<2>>
    /\ Len(listComponents(messages, "available")) = 2
    /\ \A k \in MessageIdentifiers : delivered[k] = 0 /\ created[k] = IF k[2] = 1 THEN 1 ELSE 0

C18_NoBag ==
    (ret.op = "addMessage" /\ readContractValue(Bag, FALSE) = <<>>) =>
       /\ ret.status = "noBag"
       /\ messages = before

\* C19: a Cache of capacity C never holds more than C entries, whatever
\* sequence of write, read and delete calls is made on it.
C19_CacheBound == Len(cacheDocuments) <= cacheCapacity

\* C20: after C+1 writes of distinct keys into an empty Cache of capacity C
\* (and no other call), the key written first is no longer readable and the
\* other C keys are all readable.
C20_CacheEviction ==
    (/\ Len(cacheLog) = cacheCapacity + 1
     /\ \A i \in 1..Len(cacheLog) : cacheLog[i][1] = "write"
     /\ \A i, j \in 1..Len(cacheLog) : i # j => cacheLog[i][2] # cacheLog[j][2]) =>
       /\ MapGet(cacheDocuments, cacheLog[1][2]) = <<>>
       /\ \A i \in 2..Len(cacheLog) : MapGet(cacheDocuments, cacheLog[i][2]) # <<>>

\* one caller of a CachedStorage over the S3 storage, who also calls the
\* storage directly (another party changing the backend)
CachedStep(p) ==
    \/ \E name \in Names : Cached_citationExists(p, name)
    \/ \E name \in Names : Cached_readCitation(p, name)
    \/ \E name \in Names, citation \in Citations : Cached_writeCitation(p, name, citation)
    \/ \E citation \in Citations : Cached_documentExists(p, citation)
    \/ \E citation \in Citations : Cached_readDocument(p, citation)
    \/ \E document \in Documents : Cached_writeDocument(p, document)
    \/ Cached_repository(p)
    \/ Cached_citationExists_return(p)
    \/ Cached_readCitation_return(p)
    \/ Cached_writeCitation_return(p)
    \/ Cached_documentExists_return(p)
    \/ Cached_readDocument_return(p)
    \/ Cached_writeDocument_return(p)
    \/ writeName_exists(p)
    \/ writeName_write(p)
    \/ writeDocument_exists(p)
    \/ writeDocument_write(p)

\* the calls made on the storage directly
BackendStep(p) ==
    \/ stack[p] = NoCall /\ \E document \in Documents : writeDocument(p, document)
    \/ stack[p] = NoCall /\ \E citation \in Citations : deleteDocument(p, citation)
    \/ deleteDocument_delete(p)
    \/ stack[p] = NoCall /\ \E contract \in Contracts : writeContract(p, contract)
    \/ stack[p] = NoCall /\ \E name \in Names, citation \in Citations : writeName(p, name, citation)
    \/ writeContract_exists(p)
    \/ writeContract_write(p)
    \/ writeContract_delete(p)

NextCached == \E p \in SeqProcs : CachedStep(p) \/ BackendStep(p)

SpecCached == InitCache /\ [][NextCached]_vars

\* the call that completed last is a CachedStorage read or exists check that
\* was answered from the cache
FromCache ==
    /\ ret.op \in {"Cached.citationExists", "Cached.readCitation",
                   "Cached.documentExists", "Cached.readDocument"}
    /\ repositoryCalls = <<>>

\* C21: whenever CachedStorage answers a read or an exists check from its
\* cache, the answer is what the backend holds for that key at that moment,
\* whatever was done to the backend before (deleteDocument and the promotion
\* to a contract included).
C21_NoStaleReads ==
    FromCache =>
       /\ ret.op = "Cached.citationExists" =>
             componentExists(names, generateNameIdentifier(ret.arg), FALSE)
       /\ ret.op = "Cached.readCitation" => ret.out = readNameValue(ret.arg, FALSE)
       /\ ret.op = "Cached.documentExists" =>
             componentExists(documents, generateDocumentIdentifier(ret.arg), FALSE)
       /\ ret.op = "Cached.readDocument" => ret.out = readDocumentValue(ret.arg, FALSE)

\* one caller of a CachedStorage whose backend nobody else changes
NextCachedOnly == \E p \in SeqProcs : CachedStep(p)

SpecCachedOnly == InitCache /\ [][NextCachedOnly]_vars

\* C22: after a writeCitation or writeDocument through CachedStorage has
\* returned normally the object is in the cache under the key that lookups
\* use; a read or exists check of a key that is in the cache is answered with
\* the cached object and without any call on the repository; and a write
\* that failed has left both caches as they were.
C22_WriteThrough ==
    /\ (ret.op = "Cached.writeCitation" /\ ret.status = "ok") =>
          MapGet(cacheCitations, generateKey(ret.arg)) = ret.in
    /\ (ret.op = "Cached.writeDocument" /\ ret.status = "ok") =>
          MapGet(cacheDocuments, generateVersionedKey(ret.arg[1], ret.arg[2])) = ret.in
    /\ (ret.op \in {"Cached.writeCitation", "Cached.writeDocument"} /\ ret.status # "ok") =>
          <<cacheCitations, cacheDocuments>> = cacheBefore
    /\ ret.op \in {"Cached.citationExists", "Cached.readCitation"} =>
          LET cached == MapGet(cacheBefore[1], generateKey(ret.arg))
          IN cached # <<>> =>
                /\ repositoryCalls = <<>>
                /\ ret.op = "Cached.readCitation" => ret.out = cached
                /\ ret.op = "Cached.citationExists" => ret.status = "true"
    /\ ret.op \in {"Cached.documentExists", "Cached.readDocument"} =>
          LET cached == MapGet(cacheBefore[2], generateVersionedKey(ret.arg[1], ret.arg[2]))
          IN cached # <<>> =>
                /\ repositoryCalls = <<>>
                /\ ret.op = "Cached.readDocument" => ret.out = cached
                /\ ret.op = "Cached.documentExists" => ret.status = "true"

\* C22 witness: a readCitation was answered from the cache, which only a
\* writeCitation through CachedStorage can have filled under that key
C22_Witness ==
    /\ ret.op = "Cached.readCitation" /\ repositoryCalls = <<>>
    /\ ret.out # <<>>
    /\ ret.out = bound[ret.arg]

\* C23: a readCitation or readDocument that missed the cache and got an
\* object from the repository leaves that object in the cache under the key
\* that lookups use (generateKey), so that the next read of it is answered
\* from the cache.
C23_ReadThrough ==
    /\ (ret.op = "Cached.readCitation" /\ ret.status = "ok"
          /\ repositoryCalls # <<>> /\ ret.out # <<>>) =>
          MapGet(cacheCitations, generateKey(ret.arg)) = ret.out
    /\ (ret.op = "Cached.readDocument" /\ ret.status = "ok"
          /\ repositoryCalls # <<>> /\ ret.out # <<>>) =>
          MapGet(cacheDocuments, generateVersionedKey(ret.arg[1], ret.arg[2])) = ret.out

\* one caller of a CachedStorage over a repository that holds a bag: the
\* draft and message operations, and the write that fills the cache of
\* citations; the caller makes MaxPassCalls calls at most
CachedPassStep(p) ==
    \/ calls < MaxPassCalls /\ \E draftId \in DocumentIds : Cached_draftExists(p, draftId)
    \/ calls < MaxPassCalls /\ \E draftId \in DocumentIds : Cached_readDraft(p, draftId)
    \/ calls < MaxPassCalls /\ \E draftId \in DocumentIds, draft \in Documents : Cached_writeDraft(p, draftId, draft)
    \/ calls < MaxPassCalls /\ \E draftId \in DocumentIds : Cached_deleteDraft(p, draftId)
    \/ calls < MaxPassCalls /\ Cached_messageCount(p)
    \/ calls < MaxPassCalls /\ \E message \in NewMessages : Cached_addMessage(p, message)
    \/ calls < MaxPassCalls /\ Cached_removeMessage(p)
    \/ calls < MaxPassCalls /\ \E name \in Names, citation \in Citations : Cached_writeCitation(p, name, citation)
    \/ Cached_repository(p)
    \/ Cached_draftExists_return(p)
    \/ Cached_readDraft_return(p)
    \/ Cached_writeDraft_return(p)
    \/ Cached_deleteDraft_return(p)
    \/ Cached_messageCount_return(p)
    \/ Cached_addMessage_return(p)
    \/ Cached_removeMessage_return(p)
    \/ Cached_writeCitation_return(p)
    \/ fetchDraft_read(p)
    \/ deleteDraft_unlink(p)
    \/ addMessage_count(p)
    \/ addMessage_available(p)
    \/ addMessage_processing(p)
    \/ addMessage_write(p)
    \/ removeMessage_list(p)
    \/ removeMessage_read(p)
    \/ removeMessage_delete(p)
    \/ removeMessage_write(p)
    \/ writeName_exists(p)
    \/ writeName_write(p)

NextCachedPass == \E p \in SeqProcs : CachedPassStep(p)

SpecCachedPass == InitBag /\ [][NextCachedPass]_vars

\* the repository call that a pass-through makes
PassedTo ==
    [op \in {"Cached.draftExists", "Cached.readDraft", "Cached.writeDraft",
             "Cached.deleteDraft", "Cached.messageCount", "Cached.addMessage",
             "Cached.removeMessage"} |->
        CASE op = "Cached.draftExists" -> "draftExists"
          [] op = "Cached.readDraft" -> "fetchDraft"
          [] op = "Cached.writeDraft" -> "saveDraft"
          [] op = "Cached.deleteDraft" -> "deleteDraft"
          [] op = "Cached.messageCount" -> "messageCount"
          [] op = "Cached.addMessage" -> "addMessage"
          [] op = "Cached.removeMessage" -> "removeMessage"]

\* C24: every draft operation and every message operation of CachedStorage
\* has made exactly one call on the repository, the operation of the same
\* kind, and has left both caches as they were when it was called.
C24_Bypass ==
    ret.op \in DOMAIN PassedTo =>
       /\ repositoryCalls = <<PassedTo[ret.op]>>
       /\ <<cacheCitations, cacheDocuments>> = cacheBefore

\* C24 witness: a message was removed from the bag through CachedStorage
\* while the cache of citations held an entry
C24_Witness ==
    /\ ret.op = "Cached.removeMessage" /\ ret.out # <<>>
    /\ cacheCitations # <<>>

\* one caller of a DocumentRepository, who also calls the storage directly
\* (names, documents and drafts written by another party)
RepositoryStep(p) ==
    \/ \E name \in Names, document \in Documents : commitDocument(p, name, document)
    \/ \E name \in Names : retrieveName(p, name)
    \/ \E citation \in Citations : retrieveDocument(p, citation)
    \/ DocumentRepository_storage(p)
    \/ commitDocument_return(p)
    \/ retrieveName_readDocument(p)
    \/ retrieveName_return(p)
    \/ retrieveDocument_return(p)
    \/ fetchDraft_read(p)
    \/ stack[p] = NoCall /\ \E name \in Names, citation \in Citations : writeName(p, name, citation)
    \/ writeName_exists(p)
    \/ writeName_write(p)
    \/ stack[p] = NoCall /\ \E document \in Documents : writeDocument(p, document)
    \/ writeDocument_exists(p)
    \/ writeDocument_write(p)
    \/ stack[p] = NoCall /\ \E id \in DocumentIds, d \in Documents : saveDraft(p, id, d)

NextRepository == \E p \in SeqProcs : RepositoryStep(p)

SpecRepository == Init /\ [][NextRepository]_vars

\* C25: a commitDocument of a name that is already bound fails with the
\* nameExists error, has called neither writeDocument nor writeName, and
\* leaves the stored citation of the name as it was.
C25_CommitBoundName ==
    (ret.op = "commitDocument" /\ ret.pre # NoBytes) =>
       /\ ret.status = "nameExists"
       /\ repositoryCalls = <<"nameExists">>
       /\ names[generateNameIdentifier(ret.arg)] = ret.pre

\* C26: a commitDocument of a name that is not bound returns a citation,
\* readName of the name then returns that citation and the cited document is
\* the committed one; and a retrieveName of a name that is bound to a stored
\* document returns the content of that document.
C26_CommitThenRetrieve ==
    /\ (ret.op = "commitDocument" /\ ret.pre = NoBytes) =>
          /\ ret.status = "ok"
          /\ readNameValue(ret.arg, FALSE) = ret.out
          /\ readDocumentValue(ret.out, FALSE) = ret.in
    /\ (ret.op = "retrieveName" /\ readNameValue(ret.arg, FALSE) # <<>>
          /\ readDocumentValue(readNameValue(ret.arg, FALSE), FALSE) # <<>>) =>
          /\ ret.status = "ok"
          /\ ret.out = getContent(readDocumentValue(readNameValue(ret.arg, FALSE), FALSE))

\* C27: a retrieveDocument of a citation for which no draft is stored returns
\* nothing, without an exception, and has only read the draft.
C27_RetrieveNoDraft ==
    (ret.op = "retrieveDocument" /\ ret.pre = NoBytes) =>
       /\ ret.status = "ok"
       /\ ret.out = <<>>
       /\ repositoryCalls = <<"fetchDraft">>

\* a repository with an empty bag whose S3 driver may fail
InitFaulty ==
    /\ InitStores
    /\ faulty = TRUE
    /\ cacheCapacity = CACHE_SIZE
    /\ \E capacity \in 1..Capacity : contracts = BagCommitted(capacity)

\* one caller of the S3 storage
FaultyStep(p) ==
    \/ \E name \in Names : nameExists(p, name)
    \/ \E name \in Names, citation \in Citations : writeName(p, name, citation)
    \/ writeName_exists(p)
    \/ writeName_write(p)
    \/ \E document \in Documents : writeDocument(p, document)
    \/ writeDocument_exists(p)
    \/ writeDocument_write(p)
    \/ \E contract \in Contracts : writeContract(p, contract)
    \/ writeContract_exists(p)
    \/ writeContract_write(p)
    \/ writeContract_delete(p)
    \/ \E message \in NewMessages : addMessage(p, message)
    \/ addMessage_count(p)
    \/ addMessage_available(p)
    \/ addMessage_processing(p)
    \/ addMessage_write(p)
    \/ removeMessage(p)
    \/ removeMessage_list(p)
    \/ removeMessage_read(p)
    \/ removeMessage_delete(p)
    \/ removeMessage_write(p)

NextFaulty == \E p \in SeqProcs : FaultyStep(p)

SpecFaulty == InitFaulty /\ [][NextFaulty]_vars

\* C28: removeMessage goes back to listing the bag, after the read or the
\* delete of the message it chose, only if that message is no longer under
\* its available key; a failed read or delete of a message that is still
\* there does not make it try again.
C28_RetryOnlyLostRaces ==
    [][\A p \in Procs :
          (pc[p] \in {"removeMessage_read", "removeMessage_delete"}
             /\ pc'[p] = "removeMessage_list") =>
             Len(messages[AvailableKey(loc[p].id)]) = 0]_vars

\* C29: an exists check of the driver that fails is never taken for
\* absence: nameExists does not answer false for a stored name, and
\* writeName, writeDocument, writeContract and addMessage do not return
\* normally when the key their check looks for was stored.
C29_NoFalseAbsence ==
    /\ (ret.op = "nameExists" /\ Len(names[generateNameIdentifier(ret.arg)]) > 0) =>
          ret.status # "false"
    /\ (ret.op = "writeName" /\ Len(ret.pre) > 0) => ret.status # "ok"
    /\ (ret.op \in {"writeDocument", "writeContract"} /\ Len(ret.start) > 0) =>
          ret.status # "ok"
    /\ (ret.op = "addMessage"
          /\ (Len(before[AvailableKey(ret.arg)]) > 0 \/ Len(before[ProcessingKey(ret.arg)]) > 0)) =>
          ret.status # "ok"

\* the step that resumes caller p inside a message call: each is the
\* continuation of an await whose promise the driver has settled
BorrowContinue(p) ==
    \/ addMessage_count(p)
    \/ addMessage_available(p)
    \/ addMessage_processing(p)
    \/ addMessage_write(p)
    \/ removeMessage_list(p)
    \/ removeMessage_read(p)
    \/ removeMessage_delete(p)
    \/ removeMessage_write(p)
    \/ dequeue_exists(p)
    \/ dequeue_readdir(p)
    \/ dequeue_read(p)
    \/ dequeue_unlink(p)

\* concurrent callers that add messages to the S3 bag and to the
\* LocalRepository queue and borrow them
NextBorrow ==
    \E p \in Procs :
        \/ \E message \in NewMessages : addMessage(p, message)
        \/ removeMessage(p)
        \/ \E message \in Payloads : queueMessage(p, message)
        \/ dequeueMessage(p)
        \/ BorrowContinue(p)

\* the event loop resumes every handler whose awaited promise has settled
SpecBorrowFair ==
    /\ InitBag
    /\ [][NextBorrow]_vars
    /\ \A p \in Procs : WF_vars(BorrowContinue(p))

\* the awaits of the two borrow loops
BorrowLabels ==
    {"removeMessage_list", "removeMessage_read", "removeMessage_delete", "removeMessage_write",
     "dequeue_exists", "dequeue_readdir", "dequeue_read", "dequeue_unlink"}

\* C30: every removeMessage and every dequeueMessage call that is running
\* eventually ends, however often other borrowers take the message it chose.
C30_BorrowTerminates ==
    \A p \in Procs : (pc[p] \in BorrowLabels) ~> (pc[p] = "idle")

\* C30 witness: a borrower has lost a race: the message it chose from the
\* listing is gone when it comes to read it, so it will list again
C30_Witness ==
    \E p \in Procs :
        /\ pc[p] = "removeMessage_read"
        /\ Len(messages[AvailableKey(loc[p].id)]) = 0

\* C31: a dequeueMessage whose chosen message file was removed by another
\* dequeuer does not end with an exception: every dequeueMessage call returns
\* normally, with a message or with nothing.
C31_LostRaceNotError ==
    ret.op = "dequeueMessage" => ret.status = "ok"

\* one caller of the S3 document and contract operations whose process may
\* halt at any await
NextDocsCrash == \E p \in SeqProcs : DocsStep(p) \/ halt(p)

SpecDocsCrash == Init /\ [][NextDocsCrash]_vars

\* C32: when writeContract halts between writing the contract and deleting
\* the staging document, the contract it wrote is stored intact; and every
\* writeContract that starts while a contract is stored under its key fails
\* with contractExists and leaves the stored contract as it was.
C32_ContractWriteCrash ==
    /\ (ret.op = "writeContract_delete" /\ ret.status = "halted") =>
          component(contracts[ret.arg]) = ret.in
    /\ (ret.op = "writeContract" /\ Len(ret.start) > 0) =>
          /\ ret.status = "contractExists"
          /\ contracts[ret.arg] = ret.start

\* C32 witness: a writeContract was refused while the staging document is
\* still stored next to the contract, the shadow a halted writeContract left
C32_Witness ==
    /\ ret.op = "writeContract" /\ ret.status = "contractExists"
    /\ Len(documents[ret.arg]) > 0
    /\ contracts[ret.arg] = ret.start

\* C33: reads leave the Cache alone, so whatever was read in between, once
\* capacity + 1 different keys have been written the key written first has
\* been evicted and the keys written after it are all readable.
C33_ReadsDoNotReorder ==
    LET IsWrite(entry) == entry[1] = "write"
        writes == SelectSeq(cacheLog, IsWrite)
    IN (/\ Len(writes) = cacheCapacity + 1
        /\ Len(writes) < Len(cacheLog)
        /\ \A i, j \in 1..Len(writes) : i # j => writes[i][2] # writes[j][2]) =>
          /\ MapGet(cacheDocuments, writes[1][2]) = <<>>
          /\ \A i \in 2..Len(writes) : MapGet(cacheDocuments, writes[i][2]) # <<>>

\* C34: whatever the interleaving of writeDocument and writeContract calls,
\* once the writeContract that stored a contract has completed (the contract
\* is stored and no caller is still between its write and its delete) there
\* is no object under that key in the documents bucket.
C34_NeverCoexist ==
    \A key \in DocumentKeys :
        (/\ Len(contracts[key]) > 0
         /\ \A p \in Procs : ~(pc[p] \in {"writeContract_write", "writeContract_delete"}
                                /\ loc[p].id = key)) =>
            documents[key] = NoBytes

\* the repository facade over the names, documents and contracts of the
\* storage, one caller at a time
DanglingStep(p) ==
    \/ RepositoryStep(p)
    \/ stack[p] = NoCall /\ \E contract \in Contracts : writeContract(p, contract)
    \/ writeContract_exists(p)
    \/ writeContract_write(p)
    \/ writeContract_delete(p)
    \/ stack[p] = NoCall /\ \E citation \in Citations : deleteDocument(p, citation)
    \/ deleteDocument_delete(p)

NextDangling == \E p \in SeqProcs : DanglingStep(p)

SpecDangling == Init /\ [][NextDangling]_vars

\* C35: a name bound to the citation of a document that was stored always
\* resolves: between calls the cited object is readable with readDocument, and
\* a retrieveName of the name succeeds, also after the document has been
\* promoted to a contract.
C35_NoDanglingNames ==
    \A name \in Names :
        LET citation == readNameValue(name, FALSE)
        IN (/\ citation # <<>>
            /\ firstDoc[generateDocumentIdentifier(citation)] # <<>>
            /\ citeDocument(firstDoc[generateDocumentIdentifier(citation)]) = citation) =>
              /\ (Quiescent /\ stack = [p \in Procs |-> NoCall]) =>
                    readDocumentValue(citation, FALSE) # <<>>
              /\ (ret.op = "retrieveName" /\ ret.arg = name) => ret.status = "ok"

\* the S3 message operations, one caller at a time, where a caller may halt
\* at any await
NextBagCrash == \E p \in SeqProcs : BagStep(p) \/ halt(p)

SpecBagCrash == InitBag /\ [][NextBagCrash]_vars

\* the awaits of removeMessage
RemoveLabels ==
    {"removeMessage_list", "removeMessage_read", "removeMessage_delete", "removeMessage_write"}

\* C36: when a borrower halts at an await of removeMessage, every message
\* that was stored in the bag when its call started is still stored under its
\* available key or under its processing key.
C36_NoMessageLost ==
    (ret.op \in RemoveLabels /\ ret.status = "halted") =>
        \A identifier \in MessageIdentifiers :
            (\/ Len(before[AvailableKey(identifier)]) > 0
             \/ Len(before[ProcessingKey(identifier)]) > 0) =>
                \/ Len(messages[AvailableKey(identifier)]) > 0
                \/ Len(messages[ProcessingKey(identifier)]) > 0

\* concurrent callers of the S3 message operations, each of which may return
\* or acknowledge any message that has been in the bag
NextBagAny == \E p \in Procs : AnyBagStep(p)

SpecBagAny == InitBag /\ [][NextBagAny]_vars

\* C37: when deleteMessage returns the payload of a message, it is this call
\* that removed the processing key, and no returnMessage of the same message
\* has taken the processing key too and is about to store the message under
\* an available key again; of the concurrent calls at most one succeeds.
C37_AcknowledgedOnce ==
    (ret.op = "deleteMessage" /\ ret.status = "ok") =>
        /\ Len(ret.pre) > 0
        /\ \A p \in Procs : ~(pc[p] = "returnMessage_write" /\ loc[p].arg = ret.arg)

\* two CachedStorage instances in one process, one over the S3 storage and
\* one over the LocalRepository, and direct calls of createCitation on the
\* LocalRepository; one caller at a time
TwoCachesStep(p) ==
    \/ CachedStep(p)
    \/ \E name \in Names : CachedLocal_citationExists(p, name)
    \/ \E name \in Names : CachedLocal_readCitation(p, name)
    \/ CachedLocal_repository(p)
    \/ CachedLocal_citationExists_return(p)
    \/ CachedLocal_readCitation_return(p)
    \/ fetchCitation_read(p)
    \/ stack[p] = NoCall /\ \E name \in Names, citation \in Citations : createCitation(p, name, citation)
    \/ createCitation_write(p)

NextTwoCaches == \E p \in SeqProcs : TwoCachesStep(p)

SpecTwoCaches == InitCache /\ [][NextTwoCaches]_vars

\* C38: the CachedStorage over the LocalRepository never answers true, or
\* with a citation, for a name that the LocalRepository has never held,
\* whatever was done through the CachedStorage over the S3 storage.
C38_CacheIsolation ==
    (ret.op \in {"CachedLocal.citationExists", "CachedLocal.readCitation"}
        /\ cited[ret.arg] = <<>>) =>
        /\ ret.status # "true"
        /\ ret.out = <<>>

\* commitDocument of the repository and direct calls of the storage's
\* writeName and writeDocument, one caller at a time
CommitStep(p) ==
    \/ \E name \in Names, document \in Documents : commitDocument(p, name, document)
    \/ DocumentRepository_storage(p)
    \/ commitDocument_return(p)
    \/ stack[p] = NoCall /\ \E name \in Names, citation \in Citations : writeName(p, name, citation)
    \/ writeName_exists(p)
    \/ writeName_write(p)
    \/ stack[p] = NoCall /\ \E document \in Documents : writeDocument(p, document)
    \/ writeDocument_exists(p)
    \/ writeDocument_write(p)

NextCommit == \E p \in SeqProcs : CommitStep(p)

SpecCommit == Init /\ [][NextCommit]_vars

LargeTags == 1..(MaxKeys + 3)
LargeCapacities == {MaxKeys + 1, MaxKeys + 2}
LargeNew == {<<t, 1, 1>> : t \in (MaxKeys - 1)..(MaxKeys + 3)}

\* a committed bag of a capacity above MaxKeys that holds the messages of the
\* first tags, as many as the page size or one more, all available
InitLargeBag ==
    /\ InitOthers
    /\ faulty = FALSE
    /\ cacheCapacity = CACHE_SIZE
    /\ \E capacity \in LargeCapacities : contracts = BagCommitted(capacity)
    /\ \E count \in {MaxKeys, MaxKeys + 1} :
         /\ messages = [k \in {"available", "processing"} \X LargeTags \X {1} |->
                          IF k[1] = "available" /\ k[2] <= count
                          THEN <<k[2], 1, 1, EOL>> ELSE NoBytes]
         /\ created = [k \in LargeTags \X {1} |-> IF k[1] <= count THEN 1 ELSE 0]
         /\ added = [k \in LargeTags \X {1} |-> IF k[1] <= count THEN <<k[1], 1, 1>> ELSE <<>>]
    /\ delivered = [k \in LargeTags \X {1} |-> 0]
    /\ before = [k \in {"available", "processing"} \X LargeTags \X {1} |-> NoBytes]

\* messageCount and addMessage on the large bag, one caller at a time
NextLargeBag ==
    \E p \in SeqProcs :
        \/ messageCount(p)
        \/ \E message \in LargeNew : addMessage(p, message)
        \/ addMessage_count(p)
        \/ addMessage_available(p)
        \/ addMessage_processing(p)
        \/ addMessage_write(p)

SpecLargeBag == InitLargeBag /\ [][NextLargeBag]_vars

\* the number of available keys stored in a messages bucket
AvailableCount(bucket) ==
    Cardinality({key \in DOMAIN bucket : key[1] = "available" /\ Len(bucket[key]) > 0})

\* C40: for a bag whose capacity is above the page size of the listing,
\* messageCount returns the number of available messages stored, and an
\* addMessage to a bag that holds as many available messages as its capacity
\* fails with bagFull.
C40_CapacityBeyondPage ==
    /\ ret.op = "messageCount" => ret.out = <<AvailableCount(before)>>
    /\ (ret.op = "addMessage" /\ ret.start # <<>> /\ AvailableCount(before) >= ret.start[1]) =>
          ret.status = "bagFull"

====
